---- MODULE Spec2Model ----
(***************************************************************************)
(* tree-hugger-js: the edit engine (src/src/transform.ts) and the pattern  *)
(* compiler / query engine (src/src/tree-hugger.ts, src/src/node-wrapper.ts)*)
(* as state machines.  Strings are TLA+ strings; a character is a string   *)
(* of length one and offsets are JavaScript's 0-based offsets.             *)
(***************************************************************************)
EXTENDS Integers, Sequences, FiniteSets, TLC

VARIABLES
    sourceCode,  \* Transform.sourceCode
    edits,       \* Transform.edits
    outcome,     \* what the last call on the session returned or threw
    lastOp,      \* the last call on the session
    renders,     \* the toString calls so far: "none", "once" or "again"
    tree,        \* the parsed tree: its source and its nodes
    queryOp,     \* the last query call: "none", "find" or "findAll"
    queryAt,     \* the node the queries are called on (0: none)
    queryPattern, \* the pattern given to the queries
    queryResult, \* what the last query returned or threw
    lastCall,    \* the last editing operation called on the session
    visit,       \* a traversal of TreeVisitor: its call stack and its callbacks
    sessions,    \* two sessions made by transform() on one tree
    cachedChildren \* TreeNode._children of the nodes of the tree of the two sessions

session == <<sourceCode, edits, outcome, lastOp, renders, lastCall>>
query == <<queryOp, queryAt, queryPattern, queryResult>>
beside == <<visit, sessions, cachedChildren>>
vars == <<sourceCode, edits, outcome, lastOp, renders, tree, queryOp, queryAt,
          queryPattern, queryResult, lastCall, visit, sessions, cachedChildren>>

(***************************************************************************)
(* Bounds of the edit-engine model.                                        *)
(***************************************************************************)
MaxEdits == 2

\* The largest number of nodes of a generated tree.
MaxNodes == 3
MaxCalls == 1

\* How many times the operation just called may be called again with the
\* same arguments.
MaxRepeats == 1

\* The sources a session is bound to.
Sources == {"abc"}

\* The texts of queued edits: an insertion (start = end) brings one of two
\* texts, an edit over a non-empty range removes it or replaces it.
InsertTexts == {"X", "Y"}
ReplaceTexts == {"", "X"}

--------------------------------------------------------------------------
(* JavaScript helpers *)

Min(a, b) == IF a < b THEN a ELSE b
Max(a, b) == IF a > b THEN a ELSE b

\* String.prototype.slice(from, to): negative offsets count from the end,
\* both offsets are clamped to [0, length], an empty range gives "".
ClampIndex(i, len) == IF i < 0 THEN Max(len + i, 0) ELSE Min(i, len)

slice(s, from, to) ==
    LET a == ClampIndex(from, Len(s))
        b == ClampIndex(to, Len(s))
    IN  IF a >= b THEN "" ELSE SubSeq(s, a + 1, b)

\* s.slice(from): to the end of the string.
sliceFrom(s, from) == slice(s, from, Len(s))

\* s[i] for a 0-based offset i; "" stands for undefined (out of range).
charAt(s, i) == IF i >= 0 /\ i < Len(s) THEN SubSeq(s, i + 1, i + 1) ELSE ""

--------------------------------------------------------------------------
(* Edits: transform.ts, interface Edit *)

Edit(s, e, t) == [start |-> s, end |-> e, text |-> t]

\* Array.prototype.sort is stable: edits with equal start keep their queue
\* order.  InsertAsc places e after every element whose start is <= e.start.
RECURSIVE InsertAsc(_, _)
InsertAsc(e, sorted) ==
    IF sorted = <<>> THEN <<e>>
    ELSE IF Head(sorted).start <= e.start
         THEN <<Head(sorted)>> \o InsertAsc(e, Tail(sorted))
         ELSE <<e>> \o sorted

RECURSIVE InsertDesc(_, _)
InsertDesc(e, sorted) ==
    IF sorted = <<>> THEN <<e>>
    ELSE IF Head(sorted).start >= e.start
         THEN <<Head(sorted)>> \o InsertDesc(e, Tail(sorted))
         ELSE <<e>> \o sorted

\* [...this.edits].sort((a, b) => a.start - b.start)
RECURSIVE sortByStartAsc(_)
sortByStartAsc(es) ==
    IF es = <<>> THEN <<>>
    ELSE InsertAsc(es[Len(es)], sortByStartAsc(SubSeq(es, 1, Len(es) - 1)))

\* [...this.edits].sort((a, b) => b.start - a.start)
RECURSIVE sortByStartDesc(_)
sortByStartDesc(es) ==
    IF es = <<>> THEN <<>>
    ELSE InsertDesc(es[Len(es)], sortByStartDesc(SubSeq(es, 1, Len(es) - 1)))

--------------------------------------------------------------------------
(* Outcomes of a render call *)

NoOutcome == [kind |-> "none", value |-> "", error |-> "", carried |-> <<>>]
ReturnedThis == [kind |-> "Transform", value |-> "", error |-> "", carried |-> <<>>]
Returned(str) == [kind |-> "string", value |-> str, error |-> "", carried |-> <<>>]
Thrown(err, es) == [kind |-> "TransformError", value |-> "", error |-> err, carried |-> es]

\* The editing operations: what was called, with which arguments, how many
\* edits the session held before the call and how many such calls it has
\* had.
\* No traversal and no sessions side by side: the state of the specifications
\* that have neither.
NoVisit == [status |-> "none", enter |-> FALSE, exit |-> FALSE, stack |-> <<>>,
            events |-> <<>>, returnedFalse |-> FALSE]
NoSessions == <<>>

NoCall == [op |-> "none", args |-> <<>>, from |-> 0, nth |-> 0]
Call(op, args, from, nth) == [op |-> op, args |-> args, from |-> from, nth |-> nth]

\* Mutant of validateEdits: the loop stops one pair early.
RECURSIVE firstOverlapShort(_, _)
firstOverlapShort(sorted, i) ==
    IF i >= Len(sorted) - 1 THEN <<>>
    ELSE IF sorted[i].end > sorted[i + 1].start
         THEN <<sorted[i], sorted[i + 1]>>
         ELSE firstOverlapShort(sorted, i + 1)

validateEditsShort(es) == firstOverlapShort(sortByStartAsc(es), 1)

\* The loop of validateEdits over the sorted copy, i being 1-based here:
\* the first adjacent pair with current.end > next.start, or <<>>.
RECURSIVE firstOverlap(_, _)
firstOverlap(sorted, i) ==
    IF i >= Len(sorted) THEN <<>>
    ELSE IF sorted[i].end > sorted[i + 1].start
         THEN <<sorted[i], sorted[i + 1]>>
         ELSE firstOverlap(sorted, i + 1)

\* Transform.validateEdits: <<>> when it returns, the pair {current, next}
\* carried by the TransformError when it throws.
validateEdits(es) == firstOverlap(sortByStartAsc(es), 1)

\* Mutant of outOfBounds: the upper bound of the edit is not checked.
outOfBoundsStartOnly(edit, src) == edit.start < 0

\* The guard of the apply loop: edit.start < 0 || edit.end > sourceCode.length
outOfBounds(edit, src) == edit.start < 0 \/ edit.end > Len(src)

\* The forEach of toString over the edits sorted by descending start.
RECURSIVE applyEdits(_, _, _)
applyEdits(sorted, result, src) ==
    IF sorted = <<>> THEN Returned(result)
    ELSE LET edit == Head(sorted) IN
         IF outOfBounds(edit, src)
         THEN Thrown("Edit out of bounds", <<edit>>)
         ELSE applyEdits(Tail(sorted),
                         slice(result, 0, edit.start) \o edit.text
                             \o sliceFrom(result, edit.end),
                         src)

\* Mutant of toString: the edits are applied without validateEdits.
toStringUnvalidated(src, es) == applyEdits(sortByStartDesc(es), src, src)

\* Transform.toString as a function of the session's source and edits.
toString(src, es) ==
    LET overlap == validateEdits(es) IN
    IF overlap # <<>>
    THEN Thrown("Overlapping edits detected", overlap)
    ELSE applyEdits(sortByStartDesc(es), src, src)

--------------------------------------------------------------------------
(* PatternParser: the selector parser (tree-hugger.ts, class PatternParser) *)
(* A parse function takes the input and the cursor and returns the new     *)
(* cursor with what it parsed; ok = FALSE stands for a thrown Error.       *)

Lower == {"a", "b", "c", "d", "e", "f", "g", "h", "i", "j", "k", "l", "m",
          "n", "o", "p", "q", "r", "s", "t", "u", "v", "w", "x", "y", "z"}
Upper == {"A", "B", "C", "D", "E", "F", "G", "H", "I", "J", "K", "L", "M",
          "N", "O", "P", "Q", "R", "S", "T", "U", "V", "W", "X", "Y", "Z"}
Digit == {"0", "1", "2", "3", "4", "5", "6", "7", "8", "9"}

\* /\s/.test(c)
isWhitespace(c) == c \in {" ", "\t", "\n", "\r", "\f"}

\* String.prototype.trim
RECURSIVE trimStart(_)
trimStart(s) ==
    IF s # "" /\ isWhitespace(charAt(s, 0)) THEN trimStart(sliceFrom(s, 1)) ELSE s

RECURSIVE trimEnd(_)
trimEnd(s) ==
    IF s # "" /\ isWhitespace(charAt(s, Len(s) - 1))
    THEN trimEnd(slice(s, 0, Len(s) - 1)) ELSE s

trim(s) == trimEnd(trimStart(s))

\* this.input[this.pos] || ''
peek(input, pos) == charAt(input, pos)

peekNext(input, pos) == charAt(input, pos + 1)

\* The cursor after skipWhitespace.
RECURSIVE skipWhitespace(_, _)
skipWhitespace(input, pos) ==
    IF pos < Len(input) /\ isWhitespace(peek(input, pos))
    THEN skipWhitespace(input, pos + 1) ELSE pos

\* /[a-zA-Z_]/.test(this.peek())
isIdentifierStart(input, pos) == peek(input, pos) \in Lower \cup Upper \cup {"_"}

\* /[a-zA-Z0-9_-]/.test(c)
isIdentifierChar(c) == c \in Lower \cup Upper \cup Digit \cup {"_", "-"}

\* The cursor after parseIdentifier; the identifier is the text skipped.
RECURSIVE identifierEnd(_, _)
identifierEnd(input, pos) ==
    IF pos < Len(input) /\ isIdentifierChar(peek(input, pos))
    THEN identifierEnd(input, pos + 1) ELSE pos

parseIdentifier(input, pos) ==
    LET upTo(end) == [pos |-> end, result |-> slice(input, pos, end)]
    IN  upTo(identifierEnd(input, pos))

\* parseUntil(char), result being the text collected so far.
RECURSIVE parseUntil(_, _, _, _)
parseUntil(input, pos, char, result) ==
    IF pos < Len(input) /\ peek(input, pos) # char
    THEN IF peek(input, pos) = "\\" /\ pos + 1 < Len(input)
         THEN IF peek(input, pos + 1) = char
              THEN parseUntil(input, pos + 2, char, result \o char)
              ELSE parseUntil(input, pos + 2, char,
                              result \o "\\" \o peek(input, pos + 1))
         ELSE parseUntil(input, pos + 1, char, result \o peek(input, pos))
    ELSE [pos |-> pos, result |-> result]

\* parseBalanced(closeChar), with the nesting depth and the text so far.
RECURSIVE parseBalanced(_, _, _, _, _)
parseBalanced(input, pos, closeChar, depth, result) ==
    LET openChar == IF closeChar = ")" THEN "("
                    ELSE IF closeChar = "]" THEN "[" ELSE closeChar
        current == peek(input, pos)
    IN  IF pos >= Len(input) THEN [pos |-> pos, result |-> result]
        ELSE IF current = openChar
             THEN parseBalanced(input, pos + 1, closeChar, depth + 1,
                                result \o current)
        ELSE IF current = closeChar
             THEN IF depth = 0 THEN [pos |-> pos, result |-> result]
                  ELSE parseBalanced(input, pos + 1, closeChar, depth - 1,
                                     result \o current)
        ELSE parseBalanced(input, pos + 1, closeChar, depth, result \o current)

\* Selectors.  A value that is undefined in the code is "" here: the code
\* only tests such values with "!value", which treats both alike.
TypeSelector(v) == [type |-> "type", value |-> v]
AttributeSelector(n, op, v) ==
    [type |-> "attribute", name |-> n, operator |-> op, value |-> v]
PseudoSelector(n, v) == [type |-> "pseudo", name |-> n, value |-> v]
ChildSelector(l, r) == [type |-> "child", left |-> l, right |-> r]
DescendantSelector(l, r) == [type |-> "descendant", left |-> l, right |-> r]
Combination(sels) == [type |-> "combination", selectors |-> sels]
\* "let selector: Selector | null = null"
NullSelector == [type |-> "null"]
\* The predicate "() => false" that parse returns for a pattern it rejects.
MatchNothing == [type |-> "nothing"]

Parsed(p, sel) == [ok |-> TRUE, pos |-> p, sel |-> sel]
ParseError(msg) == [ok |-> FALSE, error |-> msg]

\* parseAttributeValue: ok = FALSE when the closing quote is missing.
parseAttributeValue(input, pos0) ==
    LET quoted(quote, u) ==
            IF peek(input, u.pos) = quote
            THEN [ok |-> TRUE, pos |-> u.pos + 1, result |-> u.result]
            ELSE [ok |-> FALSE, error |-> "Expected quote"]
        unquoted(id) == [ok |-> TRUE, pos |-> id.pos, result |-> id.result]
        valueAt(pos, quote) ==
            IF quote = "\"" \/ quote = "'"
            THEN quoted(quote, parseUntil(input, pos + 1, quote, ""))
            ELSE unquoted(parseIdentifier(input, pos))
        from(pos) == valueAt(pos, peek(input, pos))
    IN  from(skipWhitespace(input, pos0))

\* The tail of parseAttribute: skipWhitespace(); expect(']').
closeAttribute(input, pos0, name, operator, value) ==
    LET close(pos) ==
            IF peek(input, pos) = "]"
            THEN Parsed(pos + 1, AttributeSelector(name, operator, value))
            ELSE ParseError("Expected ']'")
    IN  close(skipWhitespace(input, pos0))

attributeWithValue(input, pos, name, operator) ==
    LET with(v) ==
            IF v.ok THEN closeAttribute(input, v.pos, name, operator, v.result)
            ELSE ParseError(v.error)
    IN  with(parseAttributeValue(input, pos))

\* parseAttribute, called with the cursor on '['.
parseAttribute(input, pos0) ==
    LET operatorAt(pos, c, next) ==
            IF c = "=" THEN [found |-> TRUE, pos |-> pos + 1, operator |-> "="]
            ELSE IF c \in {"~", "^", "$", "*"} /\ next = "="
            THEN [found |-> TRUE, pos |-> pos + 2, operator |-> c \o "="]
            ELSE [found |-> FALSE, pos |-> pos, operator |-> "="]
        rest(name, op) ==
            IF op.found THEN attributeWithValue(input, op.pos, name, op.operator)
            ELSE closeAttribute(input, op.pos, name, "=", "")
        afterName(name, pos) ==
            rest(name, operatorAt(pos, peek(input, pos), peekNext(input, pos)))
        named(id) == afterName(id.result, skipWhitespace(input, id.pos))
    IN  IF peek(input, pos0) # "[" THEN ParseError("Expected '['")
        ELSE named(parseIdentifier(input, skipWhitespace(input, pos0 + 1)))

\* parsePseudo, called with the cursor on ':'.
parsePseudo(input, pos0) ==
    LET argument(id, b) ==
            IF peek(input, b.pos) = ")"
            THEN Parsed(b.pos + 1, PseudoSelector(id.result, b.result))
            ELSE ParseError("Expected ')'")
        named(id) ==
            IF peek(input, id.pos) = "("
            THEN argument(id, parseBalanced(input, id.pos + 1, ")", 0, ""))
            ELSE Parsed(id.pos, PseudoSelector(id.result, ""))
    IN  IF peek(input, pos0) # ":" THEN ParseError("Expected ':'")
        ELSE named(parseIdentifier(input, pos0 + 1))

\* "selector = selector ? {combination: [selector, x]} : x"
combineWith(selector, x) ==
    IF selector = NullSelector THEN x ELSE Combination(<<selector, x>>)

\* The while loop of parseSimpleSelector over attribute and pseudo blocks.
RECURSIVE simpleSelectorLoop(_, _, _)
simpleSelectorLoop(input, pos, selector) ==
    LET next(block) ==
            IF block.ok
            THEN simpleSelectorLoop(input, block.pos, combineWith(selector, block.sel))
            ELSE block
    IN  IF pos < Len(input) /\ peek(input, pos) = "["
        THEN next(parseAttribute(input, pos))
        ELSE IF pos < Len(input) /\ peek(input, pos) = ":"
        THEN next(parsePseudo(input, pos))
        ELSE IF selector = NullSelector THEN ParseError("Expected selector")
        ELSE Parsed(pos, selector)

\* parseSimpleSelector: a type selector when the cursor is on the start of
\* an identifier, then the attribute and pseudo blocks.
parseSimpleSelector(input, pos) ==
    simpleSelectorLoop(input,
        IF isIdentifierStart(input, pos) THEN parseIdentifier(input, pos).pos ELSE pos,
        IF isIdentifierStart(input, pos)
        THEN TypeSelector(parseIdentifier(input, pos).result)
        ELSE NullSelector)

\* The while loop of parseSelector, selectors being the local array.
RECURSIVE selectorLoop(_, _, _)

\* After '>': the last selector becomes the left side of a child selector.
childCombinator(input, selectors, right) ==
    IF ~right.ok THEN right
    ELSE IF selectors = <<>> THEN ParseError("Invalid child combinator")
    ELSE selectorLoop(input, right.pos,
             Append(SubSeq(selectors, 1, Len(selectors) - 1),
                    ChildSelector(selectors[Len(selectors)], right.sel)))

\* After a selector and whitespace: a descendant selector.
descendantCombinator(input, selectors, selector, right) ==
    IF ~right.ok THEN right
    ELSE selectorLoop(input, right.pos,
             Append(selectors, DescendantSelector(selector.sel, right.sel)))

\* After a selector: whitespace, then another selector or the next turn.
afterSelector(input, selectors, selector, after) ==
    IF after < Len(input) /\ peek(input, after) # ">" /\ peek(input, after) # ","
    THEN descendantCombinator(input, selectors, selector, parseSimpleSelector(input, after))
    ELSE selectorLoop(input, after, Append(selectors, selector.sel))

firstSelector(input, selectors, selector) ==
    IF ~selector.ok THEN selector
    ELSE afterSelector(input, selectors, selector, skipWhitespace(input, selector.pos))

\* One turn of the loop with the cursor after the whitespace.
selectorAt(input, pos0, selectors, pos) ==
    IF pos0 >= Len(input) \/ pos >= Len(input)
    THEN Parsed(pos, IF Len(selectors) = 1 THEN selectors[1] ELSE Combination(selectors))
    ELSE IF peek(input, pos) = ">"
    THEN childCombinator(input, selectors,
                         parseSimpleSelector(input, skipWhitespace(input, pos + 1)))
    ELSE IF peek(input, pos) = ","
    THEN selectorLoop(input, pos + 1, selectors)
    ELSE firstSelector(input, selectors, parseSimpleSelector(input, pos))

selectorLoop(input, pos0, selectors) ==
    selectorAt(input, pos0, selectors, skipWhitespace(input, pos0))

parseSelector(input) == selectorLoop(input, 0, <<>>)

\* Mutant of parse: a rejected pattern is matched as a literal node type
\* (the fallback of TreeNode.parsePattern) instead of matching nothing.
parseTypeFallback(pattern) ==
    IF trim(pattern) = "" THEN MatchNothing
    ELSE IF parseSelector(trim(pattern)).ok THEN parseSelector(trim(pattern)).sel
    ELSE TypeSelector(pattern)

\* PatternParser.parse up to compilePredicate: the selector whose compiled
\* predicate parse returns.  A pattern that is empty after trim, or on
\* which parseSelector throws, gives "() => false"; the catch block only
\* logs suggestions.
selectorOrNothing(r) == IF r.ok THEN r.sel ELSE MatchNothing

parse(pattern) ==
    IF trim(pattern) = "" THEN MatchNothing
    ELSE selectorOrNothing(parseSelector(trim(pattern)))

--------------------------------------------------------------------------
(* Syntax trees and TreeNode (node-wrapper.ts)                              *)
(* A tree is its source and its nodes numbered in pre-order, 1 the root.   *)
(* A node has SyntaxNode.type, startIndex, endIndex, the number of its     *)
(* parent (0: none) and the field name it has in its parent ("": none).    *)

Node(ty, s, e, par, fld) ==
    [type |-> ty, startIndex |-> s, endIndex |-> e, parent |-> par, field |-> fld]

NodeIds(t) == 1 .. Len(t.nodes)

RECURSIVE ascending(_)
ascending(S) ==
    IF S = {} THEN <<>>
    ELSE LET m == CHOOSE x \in S : \A y \in S : x <= y
         IN  <<m>> \o ascending(S \ {m})

\* TreeNode.children: the wrappers of node.children, in source order.
children(t, n) == ascending({i \in NodeIds(t) : t.nodes[i].parent = n})

\* TreeNode.text
text(t, n) == slice(t.source, t.nodes[n].startIndex, t.nodes[n].endIndex)

\* SyntaxNode.childForFieldName(name): the child's number, 0 for null.
childForFieldName(t, n, name) ==
    LET S == {i \in NodeIds(t) : t.nodes[i].parent = n /\ t.nodes[i].field = name}
    IN  IF S = {} THEN 0 ELSE CHOOSE x \in S : \A y \in S : x <= y

\* TreeNode.name, "" for undefined.
name(t, n) ==
    LET nameNode == childForFieldName(t, n, "name")
    IN  IF nameNode = 0 THEN "" ELSE text(t, nameNode)

\* n and its ancestors, and the nodes of the subtree of n.
RECURSIVE ancestorsOrSelf(_, _)
ancestorsOrSelf(t, n) ==
    IF n = 0 THEN {} ELSE {n} \cup ancestorsOrSelf(t, t.nodes[n].parent)

subtree(t, x) == {n \in NodeIds(t) : x \in ancestorsOrSelf(t, n)}

--------------------------------------------------------------------------
(* The alias table and the predicate compiler (tree-hugger.ts)              *)

NODE_TYPE_ALIASES ==
    ("function" :> {"function_declaration", "function_expression",
                    "arrow_function", "method_definition"})
    @@ ("arrow" :> {"arrow_function"})
    @@ ("method" :> {"method_definition"})
    @@ ("class" :> {"class_declaration", "class_expression"})
    @@ ("interface" :> {"interface_declaration"})
    @@ ("variable" :> {"variable_declarator"})
    @@ ("const" :> {"lexical_declaration"})
    @@ ("let" :> {"lexical_declaration"})
    @@ ("var" :> {"variable_declaration"})
    @@ ("string" :> {"string", "template_string"})
    @@ ("template" :> {"template_string"})
    @@ ("loop" :> {"for_statement", "while_statement", "do_statement",
                   "for_in_statement", "for_of_statement"})
    @@ ("for" :> {"for_statement", "for_in_statement", "for_of_statement"})
    @@ ("while" :> {"while_statement", "do_statement"})
    @@ ("condition" :> {"if_statement", "switch_statement", "ternary_expression"})
    @@ ("if" :> {"if_statement"})
    @@ ("switch" :> {"switch_statement"})
    @@ ("ternary" :> {"ternary_expression"})
    @@ ("import" :> {"import_statement"})
    @@ ("export" :> {"export_statement"})
    @@ ("jsx" :> {"jsx_element", "jsx_self_closing_element", "jsx_fragment"})
    @@ ("jsx-element" :> {"jsx_element", "jsx_self_closing_element"})
    @@ ("jsx-attribute" :> {"jsx_attribute"})
    @@ ("comment" :> {"comment"})
    @@ ("call" :> {"call_expression"})
    @@ ("new" :> {"new_expression"})
    @@ ("return" :> {"return_statement"})
    @@ ("throw" :> {"throw_statement"})
    @@ ("statement" :> {"expression_statement", "block_statement", "empty_statement"})
    @@ ("block" :> {"block_statement", "statement_block"})

\* NODE_TYPE_ALIASES is an object literal, so NODE_TYPE_ALIASES[typeValue]
\* also finds the properties it inherits from Object.prototype.  Their
\* values are functions or objects: truthy, and without an includes method.
ObjectPrototypeKeys ==
    {"constructor", "__proto__", "hasOwnProperty", "isPrototypeOf",
     "propertyIsEnumerable", "toLocaleString", "toString", "valueOf",
     "__defineGetter__", "__defineSetter__", "__lookupGetter__",
     "__lookupSetter__"}

\* The value of a compiled predicate on a node: "true", "false", or "throw"
\* when the call raises a TypeError.
Bool(b) == IF b THEN "true" ELSE "false"

\* Mutant of typePredicate: the direct type match, for an alias too.
typePredicateDirect(typeValue, nodeType) == Bool(nodeType = typeValue)

\* case 'type' of compilePredicate, on a node of type nodeType.
typePredicate(typeValue, nodeType) ==
    IF typeValue \in DOMAIN NODE_TYPE_ALIASES
    THEN Bool(nodeType \in NODE_TYPE_ALIASES[typeValue])
    ELSE IF typeValue \in ObjectPrototypeKeys
    THEN "throw"   \* aliasedTypes.includes is not a function
    ELSE Bool(nodeType = typeValue)

startsWith(actual, expected) == slice(actual, 0, Len(expected)) = expected

endsWith(actual, expected) ==
    Len(expected) <= Len(actual)
    /\ sliceFrom(actual, Len(actual) - Len(expected)) = expected

includes(actual, expected) ==
    \E i \in 0 .. Len(actual) : slice(actual, i, i + Len(expected)) = expected

\* actual.split(/\s+/): cur is the piece being read, inGap tells that the
\* last character read was whitespace.
RECURSIVE splitWhitespace(_, _, _, _)
splitWhitespace(actual, pos, cur, inGap) ==
    IF pos >= Len(actual) THEN <<cur>>
    ELSE IF isWhitespace(charAt(actual, pos))
         THEN IF inGap THEN splitWhitespace(actual, pos + 1, cur, TRUE)
              ELSE <<cur>> \o splitWhitespace(actual, pos + 1, "", TRUE)
         ELSE splitWhitespace(actual, pos + 1, cur \o charAt(actual, pos), FALSE)

\* PatternParser.matchValue
matchValue(actual, operator, expected) ==
    IF expected = "" THEN TRUE
    ELSE IF actual = "" THEN FALSE
    ELSE IF operator = "=" THEN actual = expected
    ELSE IF operator = "~="
         THEN LET parts == splitWhitespace(actual, 0, "", FALSE)
              IN  \E i \in 1 .. Len(parts) : parts[i] = expected
    ELSE IF operator = "^=" THEN startsWith(actual, expected)
    ELSE IF operator = "$=" THEN endsWith(actual, expected)
    ELSE IF operator = "*=" THEN includes(actual, expected)
    ELSE FALSE

\* PatternParser.compileAttributePredicate, applied to node n.
compileAttributePredicate(selector, t, n) ==
    IF selector.name = "name"
    THEN LET nodeName == name(t, n)
             kids == children(t, n)
         IN  IF nodeName = ""
             THEN /\ t.nodes[n].type = "jsx_attribute"
                  /\ kids # <<>>
                  /\ t.nodes[kids[1]].type = "property_identifier"
                  /\ matchValue(text(t, kids[1]), selector.operator, selector.value)
             ELSE matchValue(nodeName, selector.operator, selector.value)
    ELSE IF selector.name = "async" THEN includes(text(t, n), "async")
    ELSE IF selector.name = "text"
         THEN matchValue(text(t, n), selector.operator, selector.value)
    ELSE IF selector.name = "" THEN FALSE
    ELSE LET field == childForFieldName(t, n, selector.name)
         IN  /\ field # 0
             /\ matchValue(text(t, field), selector.operator, selector.value)

\* The first of the results that is not v, and v when all are: how
\* Array.every, Array.some and the ancestor loop go through the predicate
\* calls in order and stop at the first one that decides, or that raises.
firstOther(rs, v) ==
    LET others == {i \in 1 .. Len(rs) : rs[i] # v}
    IN  IF others = {} THEN v
        ELSE rs[CHOOSE i \in others : \A j \in others : i <= j]

\* Mutant of every: predicates.some(p => p(node)).
some(rs) == firstOther(rs, "false")

\* predicates.every(p => p(node))
every(rs) == firstOther(rs, "true")

\* Mutant of ancestors: the loop stops below the root of the tree.
RECURSIVE ancestorsBelowRoot(_, _)
ancestorsBelowRoot(t, n) ==
    IF t.nodes[n].parent = 0 \/ t.nodes[t.nodes[n].parent].parent = 0 THEN <<>>
    ELSE <<t.nodes[n].parent>> \o ancestorsBelowRoot(t, t.nodes[n].parent)

\* The while loop of case 'descendant': the parent of n, its parent, ...
RECURSIVE ancestors(_, _)
ancestors(t, n) ==
    IF t.nodes[n].parent = 0 THEN <<>>
    ELSE <<t.nodes[n].parent>> \o ancestors(t, t.nodes[n].parent)

someAncestor(rs) == firstOther(rs, "false")

\* The nodes checkDescendants of case 'has' visits, in the order it visits
\* them: the nodes below n in pre-order, which is the order of their numbers.
descendants(t, n) == ascending(subtree(t, n) \ {n})

\* node.children.some(child => checkDescendants(child))
checkDescendants(rs) == firstOther(rs, "false")

RECURSIVE compilePredicate(_, _, _)

\* PatternParser.compilePseudoPredicate, applied to node n.  The argument
\* is parsed by a new PatternParser, whose parse never throws.
compilePseudoPredicate(selector, t, n) ==
    LET below == descendants(t, n)
        negation(r) == IF r = "throw" THEN "throw" ELSE Bool(r = "false")
        compiled(innerPredicate) ==
            IF selector.name = "has"
            THEN checkDescendants([i \in 1 .. Len(below) |->
                                     compilePredicate(innerPredicate, t, below[i])])
            ELSE negation(compilePredicate(innerPredicate, t, n))
    IN  IF selector.name \in {"has", "not"} /\ selector.value # ""
        THEN compiled(parse(selector.value))
        ELSE "false"

\* PatternParser.compilePredicate: the compiled predicate of the selector
\* applied to node n of tree t.
compilePredicate(selector, t, n) ==
    LET above == ancestors(t, n)
        onAncestors(rightPredicate) ==
            IF rightPredicate # "true" THEN rightPredicate
            ELSE IF selector.type = "child"
            THEN IF above = <<>> THEN "false"
                 ELSE compilePredicate(selector.left, t, above[1])
            ELSE someAncestor([i \in 1 .. Len(above) |->
                                 compilePredicate(selector.left, t, above[i])])
    IN  IF selector.type = "type"
        THEN typePredicate(selector.value, t.nodes[n].type)
        ELSE IF selector.type = "attribute"
        THEN Bool(compileAttributePredicate(selector, t, n))
        ELSE IF selector.type = "pseudo"
        THEN compilePseudoPredicate(selector, t, n)
        ELSE IF selector.type \in {"child", "descendant"}
        THEN onAncestors(compilePredicate(selector.right, t, n))
        ELSE IF selector.type = "combination"
        THEN every([i \in 1 .. Len(selector.selectors) |->
                      compilePredicate(selector.selectors[i], t, n)])
        ELSE "false"

--------------------------------------------------------------------------
(* The query engine (node-wrapper.ts)                                       *)

Nodes(ns) == [kind |-> "nodes", nodes |-> ns]
OneNode(n) == [kind |-> "node", nodes |-> <<n>>]
Null == [kind |-> "null", nodes |-> <<>>]
TypeError == [kind |-> "TypeError", nodes |-> <<>>]
NoResult == [kind |-> "none", nodes |-> <<>>]

RECURSIVE findAllNodes(_, _, _)
RECURSIVE findAllInChildren(_, _, _, _, _)
RECURSIVE findNode(_, _, _)
RECURSIVE findInChildren(_, _, _, _)

\* The for loop of findAllNodes: results.push(...child.findAllNodes(p)).
findAllInChildren(predicate, t, kids, i, results) ==
    LET pushed(r) ==
            IF r.kind = "TypeError" THEN r
            ELSE findAllInChildren(predicate, t, kids, i + 1, results \o r.nodes)
    IN  IF i > Len(kids) THEN Nodes(results)
        ELSE pushed(findAllNodes(predicate, t, kids[i]))

\* TreeNode.findAllNodes on node n.
findAllNodes(predicate, t, n) ==
    LET tested(self) ==
            IF self = "throw" THEN TypeError
            ELSE findAllInChildren(predicate, t, children(t, n), 1,
                                   IF self = "true" THEN <<n>> ELSE <<>>)
    IN  tested(compilePredicate(predicate, t, n))

\* The for loop of findNode.
findInChildren(predicate, t, kids, i) ==
    LET found(r) ==
            IF r.kind = "null" THEN findInChildren(predicate, t, kids, i + 1)
            ELSE r
    IN  IF i > Len(kids) THEN Null
        ELSE found(findNode(predicate, t, kids[i]))

\* TreeNode.findNode on node n.
findNode(predicate, t, n) ==
    LET tested(self) ==
            IF self = "throw" THEN TypeError
            ELSE IF self = "true" THEN OneNode(n)
            ELSE findInChildren(predicate, t, children(t, n), 1)
    IN  tested(compilePredicate(predicate, t, n))

\* TreeNode.parsePattern: parse never throws, so the catch is dead code.
parsePattern(pattern) == parse(pattern)

\* TreeNode.find and TreeNode.findAll on node x.
find(t, x, pattern) == findNode(parsePattern(pattern), t, x)

findAll(t, x, pattern) == findAllNodes(parsePattern(pattern), t, x)

--------------------------------------------------------------------------
(* The editing operations of a session (transform.ts).  The root of the    *)
(* session is the root of the tree, node 1.  An operation gives the edits  *)
(* it pushes, in the order it pushes them.                                 *)

\* nodes.forEach(node => this.edits.push({start, end, text})) with one text.
replaceEach(t, ns, str) ==
    [i \in 1 .. Len(ns) |->
        Edit(t.nodes[ns[i]].startIndex, t.nodes[ns[i]].endIndex, str)]

\* renameIdentifier: the identifiers findAll gives, whatever is above them,
\* and no property identifier.
renameIdentifier(t, oldName, newName) ==
    replaceEach(t, SelectSeq(findAll(t, 1, "identifier").nodes,
                             LAMBDA n : text(t, n) = oldName), newName)

\* The while loop of rename: an ancestor of n is a string, a comment, a
\* string fragment or a regex.
insideStringOrComment(t, n) ==
    \E i \in 1 .. Len(ancestors(t, n)) :
        t.nodes[ancestors(t, n)[i]].type \in {"string", "comment", "string_fragment", "regex"}

\* The filter of rename.
renamed(t, n, oldName) ==
    IF t.nodes[n].type = "identifier" /\ text(t, n) = oldName
    THEN ~insideStringOrComment(t, n)
    ELSE IF t.nodes[n].type = "property_identifier" /\ text(t, n) = oldName THEN TRUE
    ELSE IF t.nodes[n].type = "shorthand_property_identifier_pattern" /\ text(t, n) = oldName
    THEN TRUE
    ELSE FALSE

rename(t, oldName, newName) ==
    replaceEach(t, SelectSeq(descendants(t, 1), LAMBDA n : renamed(t, n, oldName)), newName)

\* The patterns of String.prototype.replace: a string, or a regular
\* expression that matches one literal text, with or without the g flag.
Literal(str) == [kind |-> "string", source |-> str, global |-> FALSE]

RegExp(str, g) == [kind |-> "RegExp", source |-> str, global |-> g]

\* str.indexOf(search, position), -1 when there is no occurrence.
RECURSIVE indexOfFrom(_, _, _)
indexOfFrom(str, search, position) ==
    IF position + Len(search) > Len(str) THEN -1
    ELSE IF slice(str, position, position + Len(search)) = search THEN position
    ELSE indexOfFrom(str, search, position + 1)

\* replace with a string or with a regular expression without the g flag:
\* the first occurrence only.
replaceFirst(str, search, replacement) ==
    LET cut(i) ==
            IF i = -1 THEN str
            ELSE slice(str, 0, i) \o replacement \o sliceFrom(str, i + Len(search))
    IN  cut(indexOfFrom(str, search, 0))

\* replace with a regular expression with the g flag: every occurrence,
\* from left to right, each search starting where the last match ended.
RECURSIVE replaceAll(_, _, _, _)
replaceAll(str, search, replacement, position) ==
    LET cut(i) ==
            IF i = -1 THEN sliceFrom(str, position)
            ELSE slice(str, position, i) \o replacement
                 \o replaceAll(str, search, replacement, i + Len(search))
    IN  cut(indexOfFrom(str, search, position))

replace(str, pattern, replacement) ==
    IF pattern.kind = "RegExp" /\ pattern.global
    THEN replaceAll(str, pattern.source, replacement, 0)
    ELSE replaceFirst(str, pattern.source, replacement)

\* replaceIn on the nodes findAll(nodeType) gave: an edit for each node
\* whose text the replacement changes.
replaceIn(t, ns, pattern, replacement) ==
    LET changed == SelectSeq(ns, LAMBDA n : replace(text(t, n), pattern, replacement) # text(t, n))
    IN  [i \in 1 .. Len(changed) |->
            Edit(t.nodes[changed[i]].startIndex, t.nodes[changed[i]].endIndex,
                 replace(text(t, changed[i]), pattern, replacement))]

\* The selector remove searches for: a pattern with a dot and no bracket
\* or space, or one that ends with (), is taken as the text of a call.
actualPattern(pattern) ==
    IF includes(pattern, ".") /\ ~includes(pattern, "[") /\ ~includes(pattern, " ")
    THEN "call_expression[text*=\"" \o pattern \o "\"]"
    ELSE IF endsWith(pattern, "()")
    THEN "call_expression[text*=\"" \o slice(pattern, 0, -2) \o "(\"]"
    ELSE pattern

isStatement(nodeType) ==
    nodeType \in {"expression_statement", "variable_declaration", "lexical_declaration",
                  "import_statement", "export_statement", "return_statement",
                  "if_statement", "for_statement", "while_statement",
                  "function_declaration", "class_declaration"}

\* while (start > 0 && sourceCode[start - 1] !== '\n') start--
RECURSIVE findLineStart(_, _)
findLineStart(src, index) ==
    IF index > 0 /\ charAt(src, index - 1) # "\n" THEN findLineStart(src, index - 1)
    ELSE index

\* Mutant of findLineEnd: the step past the newline is taken without
\* looking at the length of the source.
RECURSIVE findLineEndPast(_, _)
findLineEndPast(src, end) ==
    IF end < Len(src) /\ charAt(src, end) # "\n" THEN findLineEndPast(src, end + 1)
    ELSE end + 1

\* The end of the line of remove: forward to the next newline, and past it.
RECURSIVE findLineEnd(_, _)
findLineEnd(src, end) ==
    IF end < Len(src) /\ charAt(src, end) # "\n" THEN findLineEnd(src, end + 1)
    ELSE IF end < Len(src) /\ charAt(src, end) = "\n" THEN end + 1
    ELSE end

\* nodeToRemove: the declaration in place of a variable_declarator when
\* declaration.findAll('variable_declarator') has one node.
nodeToRemove(t, n) ==
    IF t.nodes[n].type = "variable_declarator" /\ t.nodes[n].parent # 0
    THEN IF Len(findAll(t, t.nodes[n].parent, "variable_declarator").nodes) = 1
         THEN t.nodes[n].parent
         ELSE n
    ELSE n

\* Mutant of removal: the range of the node, for a statement too.
removalOfRange(t, n) == Edit(t.nodes[n].startIndex, t.nodes[n].endIndex, "")

\* The edit of remove for nodeToRemove: the whole line of a statement, the
\* range of any other node.
removal(t, n) ==
    IF isStatement(t.nodes[n].type)
    THEN Edit(findLineStart(t.source, t.nodes[n].startIndex),
              findLineEnd(t.source, t.nodes[n].endIndex), "")
    ELSE Edit(t.nodes[n].startIndex, t.nodes[n].endIndex, "")

\* remove on the nodes findAll(actualPattern) gave.
remove(t, ns) == [i \in 1 .. Len(ns) |-> removal(t, nodeToRemove(t, ns[i]))]

\* The filter of removeUnusedImports: an ancestor of n is an import
\* statement.
insideImport(t, n) ==
    \E i \in 1 .. Len(ancestors(t, n)) :
        t.nodes[ancestors(t, n)[i]].type = "import_statement"

\* allIdentifiers: the texts of the identifiers outside import statements.
allIdentifiers(t) ==
    LET outside(ns) == {text(t, ns[i]) : i \in {j \in 1 .. Len(ns) : ~insideImport(t, ns[j])}}
    IN  outside(findAll(t, 1, "identifier").nodes)

\* A node find gave, if any, has its text in the set.
foundIn(t, r, used) == r.kind = "node" /\ text(t, r.nodes[1]) \in used

\* childForFieldName('name') ?? childForFieldName('alias')
imported(t, specifier) ==
    IF childForFieldName(t, specifier, "name") # 0
    THEN childForFieldName(t, specifier, "name")
    ELSE childForFieldName(t, specifier, "alias")

hasUsedImport(t, importNode, used) ==
    \/ foundIn(t, find(t, importNode, "import_clause > identifier"), used)
    \/ LET named(ns) ==
               \E i \in 1 .. Len(ns) :
                   imported(t, ns[i]) # 0 /\ text(t, imported(t, ns[i])) \in used
       IN  named(findAll(t, importNode, "import_specifier").nodes)
    \/ foundIn(t, find(t, importNode, "namespace_import > identifier"), used)

\* The edit that removes an import statement and the newline after it.
importRemoval(t, importNode) ==
    Edit(t.nodes[importNode].startIndex,
         IF t.nodes[importNode].endIndex < Len(t.source)
            /\ charAt(t.source, t.nodes[importNode].endIndex) = "\n"
         THEN t.nodes[importNode].endIndex + 1
         ELSE t.nodes[importNode].endIndex,
         "")

\* The import statements none of whose bindings is used.
unusedImports(t, imports, used) ==
    SelectSeq(imports, LAMBDA importNode : ~hasUsedImport(t, importNode, used))

removeUnusedImports(t) ==
    [i \in 1 .. Len(unusedImports(t, findAll(t, 1, "import_statement").nodes,
                                  allIdentifiers(t))) |->
        importRemoval(t, unusedImports(t, findAll(t, 1, "import_statement").nodes,
                                       allIdentifiers(t))[i])]

keywordTypes == {"const", "let", "var", "return", "if", "for", "while"}

\* Mutant of targetNode: the matched node, whatever its type.
matchedNode(t, n) == n

\* targetNode: for a keyword node the nearest ancestor that is a statement,
\* if there is one; the node itself otherwise.
targetNode(t, n) ==
    LET statements == SelectSeq(ancestors(t, n), LAMBDA a : isStatement(t.nodes[a].type))
    IN  IF t.nodes[n].type \in keywordTypes /\ statements # <<>> THEN statements[1] ELSE n

\* The targets whose inserted text is formatted.
isStatementLevel(nodeType) ==
    \/ isStatement(nodeType)
    \/ nodeType \in {"function_declaration", "method_definition", "class_declaration"}

\* The spaces and tabs from an offset on.
RECURSIVE extractIndentation(_, _)
extractIndentation(src, i) ==
    IF i < Len(src) /\ charAt(src, i) \in {" ", "\t"}
    THEN charAt(src, i) \o extractIndentation(src, i + 1)
    ELSE ""

\* The indentation of the line a node starts on.
lineIndentation(t, n) ==
    extractIndentation(t.source, findLineStart(t.source, t.nodes[n].startIndex))

\* getContextualIndentation: the first ancestor that is a block or a class
\* declaration decides; above a class declaration a node that is not a
\* method takes the indentation of the class.
getContextualIndentation(t, n) ==
    LET blocks ==
            SelectSeq(ancestors(t, n), LAMBDA a :
                t.nodes[a].type \in {"class_body", "function_body", "statement_block",
                                     "block", "class_declaration"})
    IN  IF blocks # <<>> /\ t.nodes[blocks[1]].type = "class_declaration"
           /\ t.nodes[n].type # "method_definition"
        THEN lineIndentation(t, blocks[1])
        ELSE lineIndentation(t, n)

\* insertText of insertBefore for a target.
textBefore(t, n, str) ==
    IF isStatementLevel(t.nodes[n].type)
    THEN getContextualIndentation(t, n) \o trim(str) \o "\n" \o lineIndentation(t, n)
    ELSE str

\* insertText of insertAfter for a target.
textAfter(t, n, str) ==
    LET nextCharIndex == t.nodes[n].endIndex
        hasNewlineAfter ==
            nextCharIndex < Len(t.source) /\ charAt(t.source, nextCharIndex) = "\n"
        hasEmptyLineAfter ==
            nextCharIndex + 1 < Len(t.source) /\ charAt(t.source, nextCharIndex + 1) = "\n"
    IN  IF ~isStatementLevel(t.nodes[n].type) THEN str
        ELSE IF t.nodes[n].type = "method_definition" /\ t.nodes[n].parent # 0
                /\ t.nodes[t.nodes[n].parent].type = "class_body"
        THEN IF ~hasNewlineAfter THEN "\n\n" \o lineIndentation(t, n) \o trim(str)
             ELSE IF ~hasEmptyLineAfter THEN "\n" \o lineIndentation(t, n) \o trim(str)
             ELSE lineIndentation(t, n) \o trim(str) \o "\n"
        ELSE IF ~hasNewlineAfter THEN "\n" \o getContextualIndentation(t, n) \o trim(str)
        ELSE getContextualIndentation(t, n) \o trim(str) \o "\n"

\* insertBefore and insertAfter on the nodes findAll(pattern) gave.
insertBefore(t, ns, str) ==
    LET edit(n) == Edit(t.nodes[n].startIndex, t.nodes[n].startIndex, textBefore(t, n, str))
    IN  [i \in 1 .. Len(ns) |-> edit(targetNode(t, ns[i]))]

insertAfter(t, ns, str) ==
    LET edit(n) == Edit(t.nodes[n].endIndex, t.nodes[n].endIndex, textAfter(t, n, str))
    IN  [i \in 1 .. Len(ns) |-> edit(targetNode(t, ns[i]))]

--------------------------------------------------------------------------
(* The trees of the model *)

\* abc
TreeAbc ==
    [source |-> "abc",
     nodes |-> << Node("program", 0, 3, 0, ""),
                  Node("expression_statement", 0, 3, 1, ""),
                  Node("identifier", 0, 3, 2, "") >>]

\* const x = "a";
TreeConst ==
    [source |-> "const x = \"a\";",
     nodes |-> << Node("program", 0, 14, 0, ""),
                  Node("lexical_declaration", 0, 14, 1, ""),
                  Node("const", 0, 5, 2, "kind"),
                  Node("variable_declarator", 6, 13, 2, ""),
                  Node("identifier", 6, 7, 4, "name"),
                  Node("=", 8, 9, 4, ""),
                  Node("string", 10, 13, 4, "value"),
                  Node("\"", 10, 11, 7, ""),
                  Node("string_fragment", 11, 12, 7, ""),
                  Node("\"", 12, 13, 7, ""),
                  Node(";", 13, 14, 2, "") >>]

\* a > b[0];
TreeCompare ==
    [source |-> "a > b[0];",
     nodes |-> << Node("program", 0, 9, 0, ""),
                  Node("expression_statement", 0, 9, 1, ""),
                  Node("binary_expression", 0, 8, 2, ""),
                  Node("identifier", 0, 1, 3, "left"),
                  Node(">", 2, 3, 3, "operator"),
                  Node("subscript_expression", 4, 8, 3, "right"),
                  Node("identifier", 4, 5, 6, "object"),
                  Node("[", 5, 6, 6, ""),
                  Node("number", 6, 7, 6, "index"),
                  Node("]", 7, 8, 6, ""),
                  Node(";", 8, 9, 2, "") >>]

\* x;
\* "x";
\* o.x; // x
\* const {x} = o;
TreeRename ==
    [source |-> "x;\n\"x\";\no.x; // x\nconst {x} = o;",
     nodes |-> << Node("program", 0, 32, 0, ""),
                  Node("expression_statement", 0, 2, 1, ""),
                  Node("identifier", 0, 1, 2, ""),
                  Node(";", 1, 2, 2, ""),
                  Node("expression_statement", 3, 7, 1, ""),
                  Node("string", 3, 6, 5, ""),
                  Node("\"", 3, 4, 6, ""),
                  Node("string_fragment", 4, 5, 6, ""),
                  Node("\"", 5, 6, 6, ""),
                  Node(";", 6, 7, 5, ""),
                  Node("expression_statement", 8, 12, 1, ""),
                  Node("member_expression", 8, 11, 11, ""),
                  Node("identifier", 8, 9, 12, "object"),
                  Node(".", 9, 10, 12, ""),
                  Node("property_identifier", 10, 11, 12, "property"),
                  Node(";", 11, 12, 11, ""),
                  Node("comment", 13, 17, 1, ""),
                  Node("lexical_declaration", 18, 32, 1, ""),
                  Node("const", 18, 23, 18, "kind"),
                  Node("variable_declarator", 24, 31, 18, ""),
                  Node("object_pattern", 24, 27, 20, "name"),
                  Node("{", 24, 25, 21, ""),
                  Node("shorthand_property_identifier_pattern", 25, 26, 21, ""),
                  Node("}", 26, 27, 21, ""),
                  Node("=", 28, 29, 20, ""),
                  Node("identifier", 30, 31, 20, "value"),
                  Node(";", 31, 32, 18, "") >>]

\* "aa"; "a"; "b";
TreeStrings ==
    [source |-> "\"aa\"; \"a\"; \"b\";",
     nodes |-> << Node("program", 0, 15, 0, ""),
                  Node("expression_statement", 0, 5, 1, ""),
                  Node("string", 0, 4, 2, ""),
                  Node("\"", 0, 1, 3, ""),
                  Node("string_fragment", 1, 3, 3, ""),
                  Node("\"", 3, 4, 3, ""),
                  Node(";", 4, 5, 2, ""),
                  Node("expression_statement", 6, 10, 1, ""),
                  Node("string", 6, 9, 8, ""),
                  Node("\"", 6, 7, 9, ""),
                  Node("string_fragment", 7, 8, 9, ""),
                  Node("\"", 8, 9, 9, ""),
                  Node(";", 9, 10, 8, ""),
                  Node("expression_statement", 11, 15, 1, ""),
                  Node("string", 11, 14, 14, ""),
                  Node("\"", 11, 12, 15, ""),
                  Node("string_fragment", 12, 13, 15, ""),
                  Node("\"", 13, 14, 15, ""),
                  Node(";", 14, 15, 14, "") >>]

\* const x = 42;
TreeConst42 ==
    [source |-> "const x = 42;",
     nodes |-> << Node("program", 0, 13, 0, ""),
                  Node("lexical_declaration", 0, 13, 1, ""),
                  Node("const", 0, 5, 2, "kind"),
                  Node("variable_declarator", 6, 12, 2, ""),
                  Node("identifier", 6, 7, 4, "name"),
                  Node("=", 8, 9, 4, ""),
                  Node("number", 10, 12, 4, "value"),
                  Node(";", 12, 13, 2, "") >>]

\* let a = 1;
\* const f = () => { const y = 2; };
\* 
TreeNested ==
    [source |-> "let a = 1;\nconst f = () => { const y = 2; };\n",
     nodes |-> << Node("program", 0, 45, 0, ""),
                  Node("lexical_declaration", 0, 10, 1, ""),
                  Node("let", 0, 3, 2, "kind"),
                  Node("variable_declarator", 4, 9, 2, ""),
                  Node("identifier", 4, 5, 4, "name"),
                  Node("=", 6, 7, 4, ""),
                  Node("number", 8, 9, 4, "value"),
                  Node(";", 9, 10, 2, ""),
                  Node("lexical_declaration", 11, 44, 1, ""),
                  Node("const", 11, 16, 9, "kind"),
                  Node("variable_declarator", 17, 43, 9, ""),
                  Node("identifier", 17, 18, 11, "name"),
                  Node("=", 19, 20, 11, ""),
                  Node("arrow_function", 21, 43, 11, "value"),
                  Node("formal_parameters", 21, 23, 14, "parameters"),
                  Node("(", 21, 22, 15, ""),
                  Node(")", 22, 23, 15, ""),
                  Node("=>", 24, 26, 14, ""),
                  Node("statement_block", 27, 43, 14, "body"),
                  Node("{", 27, 28, 19, ""),
                  Node("lexical_declaration", 29, 41, 19, ""),
                  Node("const", 29, 34, 21, "kind"),
                  Node("variable_declarator", 35, 40, 21, ""),
                  Node("identifier", 35, 36, 23, "name"),
                  Node("=", 37, 38, 23, ""),
                  Node("number", 39, 40, 23, "value"),
                  Node(";", 40, 41, 21, ""),
                  Node("}", 42, 43, 19, ""),
                  Node(";", 43, 44, 9, "") >>]

\* function test() { return 42; }
TreeFunction ==
    [source |-> "function test() { return 42; }",
     nodes |-> << Node("program", 0, 30, 0, ""),
                  Node("function_declaration", 0, 30, 1, ""),
                  Node("function", 0, 8, 2, ""),
                  Node("identifier", 9, 13, 2, "name"),
                  Node("formal_parameters", 13, 15, 2, "parameters"),
                  Node("(", 13, 14, 5, ""),
                  Node(")", 14, 15, 5, ""),
                  Node("statement_block", 16, 30, 2, "body"),
                  Node("{", 16, 17, 8, ""),
                  Node("return_statement", 18, 28, 8, ""),
                  Node("return", 18, 24, 10, ""),
                  Node("number", 25, 27, 10, ""),
                  Node(";", 27, 28, 10, ""),
                  Node("}", 29, 30, 8, "") >>]

\* import d from "m";
\* import {a as b} from "m";
\* import {c, e} from "m";
\* import * as n from "m";
\* b; c; n;
TreeImports ==
    [source |-> "import d from \"m\";\nimport {a as b} from \"m\";\nimport {c, e} from \"m\";\nimport * as n from \"m\";\nb; c; n;",
     nodes |-> << Node("program", 0, 101, 0, ""),
                  Node("import_statement", 0, 18, 1, ""),
                  Node("import", 0, 6, 2, ""),
                  Node("import_clause", 7, 8, 2, ""),
                  Node("identifier", 7, 8, 4, ""),
                  Node("from", 9, 13, 2, ""),
                  Node("string", 14, 17, 2, "source"),
                  Node("\"", 14, 15, 7, ""),
                  Node("string_fragment", 15, 16, 7, ""),
                  Node("\"", 16, 17, 7, ""),
                  Node(";", 17, 18, 2, ""),
                  Node("import_statement", 19, 44, 1, ""),
                  Node("import", 19, 25, 12, ""),
                  Node("import_clause", 26, 34, 12, ""),
                  Node("named_imports", 26, 34, 14, ""),
                  Node("{", 26, 27, 15, ""),
                  Node("import_specifier", 27, 33, 15, ""),
                  Node("identifier", 27, 28, 17, "name"),
                  Node("as", 29, 31, 17, ""),
                  Node("identifier", 32, 33, 17, "alias"),
                  Node("}", 33, 34, 15, ""),
                  Node("from", 35, 39, 12, ""),
                  Node("string", 40, 43, 12, "source"),
                  Node("\"", 40, 41, 23, ""),
                  Node("string_fragment", 41, 42, 23, ""),
                  Node("\"", 42, 43, 23, ""),
                  Node(";", 43, 44, 12, ""),
                  Node("import_statement", 45, 68, 1, ""),
                  Node("import", 45, 51, 28, ""),
                  Node("import_clause", 52, 58, 28, ""),
                  Node("named_imports", 52, 58, 30, ""),
                  Node("{", 52, 53, 31, ""),
                  Node("import_specifier", 53, 54, 31, ""),
                  Node("identifier", 53, 54, 33, "name"),
                  Node(",", 54, 55, 31, ""),
                  Node("import_specifier", 56, 57, 31, ""),
                  Node("identifier", 56, 57, 36, "name"),
                  Node("}", 57, 58, 31, ""),
                  Node("from", 59, 63, 28, ""),
                  Node("string", 64, 67, 28, "source"),
                  Node("\"", 64, 65, 40, ""),
                  Node("string_fragment", 65, 66, 40, ""),
                  Node("\"", 66, 67, 40, ""),
                  Node(";", 67, 68, 28, ""),
                  Node("import_statement", 69, 92, 1, ""),
                  Node("import", 69, 75, 45, ""),
                  Node("import_clause", 76, 82, 45, ""),
                  Node("namespace_import", 76, 82, 47, ""),
                  Node("*", 76, 77, 48, ""),
                  Node("as", 78, 80, 48, ""),
                  Node("identifier", 81, 82, 48, ""),
                  Node("from", 83, 87, 45, ""),
                  Node("string", 88, 91, 45, "source"),
                  Node("\"", 88, 89, 53, ""),
                  Node("string_fragment", 89, 90, 53, ""),
                  Node("\"", 90, 91, 53, ""),
                  Node(";", 91, 92, 45, ""),
                  Node("expression_statement", 93, 95, 1, ""),
                  Node("identifier", 93, 94, 58, ""),
                  Node(";", 94, 95, 58, ""),
                  Node("expression_statement", 96, 98, 1, ""),
                  Node("identifier", 96, 97, 61, ""),
                  Node(";", 97, 98, 61, ""),
                  Node("expression_statement", 99, 101, 1, ""),
                  Node("identifier", 99, 100, 64, ""),
                  Node(";", 100, 101, 64, "") >>]

\* console.log(1);
\* test();
\* 
TreeCalls ==
    [source |-> "console.log(1);\ntest();\n",
     nodes |-> << Node("program", 0, 24, 0, ""),
                  Node("expression_statement", 0, 15, 1, ""),
                  Node("call_expression", 0, 14, 2, ""),
                  Node("member_expression", 0, 11, 3, "function"),
                  Node("identifier", 0, 7, 4, "object"),
                  Node(".", 7, 8, 4, ""),
                  Node("property_identifier", 8, 11, 4, "property"),
                  Node("arguments", 11, 14, 3, "arguments"),
                  Node("(", 11, 12, 8, ""),
                  Node("number", 12, 13, 8, ""),
                  Node(")", 13, 14, 8, ""),
                  Node(";", 14, 15, 2, ""),
                  Node("expression_statement", 16, 23, 1, ""),
                  Node("call_expression", 16, 22, 13, ""),
                  Node("identifier", 16, 20, 14, "function"),
                  Node("arguments", 20, 22, 14, "arguments"),
                  Node("(", 20, 21, 16, ""),
                  Node(")", 21, 22, 16, ""),
                  Node(";", 22, 23, 13, "") >>]

\* class A {
\*   m() {}
\* }
\* 
TreeClass ==
    [source |-> "class A {\n  m() {}\n}\n",
     nodes |-> << Node("program", 0, 21, 0, ""),
                  Node("class_declaration", 0, 20, 1, ""),
                  Node("class", 0, 5, 2, ""),
                  Node("identifier", 6, 7, 2, "name"),
                  Node("class_body", 8, 20, 2, "body"),
                  Node("{", 8, 9, 5, ""),
                  Node("method_definition", 12, 18, 5, ""),
                  Node("property_identifier", 12, 13, 7, "name"),
                  Node("formal_parameters", 13, 15, 7, "parameters"),
                  Node("(", 13, 14, 9, ""),
                  Node(")", 14, 15, 9, ""),
                  Node("statement_block", 16, 18, 7, "body"),
                  Node("{", 16, 17, 12, ""),
                  Node("}", 17, 18, 12, ""),
                  Node("}", 19, 20, 5, "") >>]

\* A tree of another grammar, in which a string node holds an identifier
\* node: the source is x and both nodes span it.
TreeQuoted ==
    [source |-> "x",
     nodes |-> << Node("program", 0, 1, 0, ""),
                  Node("string", 0, 1, 1, ""),
                  Node("identifier", 0, 1, 2, "") >>]

\* for (k in o);
TreeForIn ==
    [source |-> "for (k in o);",
     nodes |-> << Node("program", 0, 13, 0, ""),
                  Node("for_in_statement", 0, 13, 1, ""),
                  Node("for", 0, 3, 2, ""),
                  Node("(", 4, 5, 2, ""),
                  Node("identifier", 5, 6, 2, "left"),
                  Node("in", 7, 9, 2, "operator"),
                  Node("identifier", 10, 11, 2, "right"),
                  Node(")", 11, 12, 2, ""),
                  Node("empty_statement", 12, 13, 2, "body"),
                  Node(";", 12, 13, 9, "") >>]

\* f(a(1));
TreeNestedCalls ==
    [source |-> "f(a(1));",
     nodes |-> << Node("program", 0, 8, 0, ""),
                  Node("expression_statement", 0, 8, 1, ""),
                  Node("call_expression", 0, 7, 2, ""),
                  Node("identifier", 0, 1, 3, "function"),
                  Node("arguments", 1, 7, 3, "arguments"),
                  Node("(", 1, 2, 5, ""),
                  Node("call_expression", 2, 6, 5, ""),
                  Node("identifier", 2, 3, 7, "function"),
                  Node("arguments", 3, 6, 7, "arguments"),
                  Node("(", 3, 4, 9, ""),
                  Node("number", 4, 5, 9, ""),
                  Node(")", 5, 6, 9, ""),
                  Node(")", 6, 7, 5, ""),
                  Node(";", 7, 8, 2, "") >>]

\* if (a) var b;
TreeIfVar ==
    [source |-> "if (a) var b;",
     nodes |-> << Node("program", 0, 13, 0, ""),
                  Node("if_statement", 0, 13, 1, ""),
                  Node("if", 0, 2, 2, ""),
                  Node("parenthesized_expression", 3, 6, 2, "condition"),
                  Node("(", 3, 4, 4, ""),
                  Node("identifier", 4, 5, 4, ""),
                  Node(")", 5, 6, 4, ""),
                  Node("variable_declaration", 7, 13, 2, "consequence"),
                  Node("var", 7, 10, 8, ""),
                  Node("variable_declarator", 11, 12, 8, ""),
                  Node("identifier", 11, 12, 10, "name"),
                  Node(";", 12, 13, 8, "") >>]

TransformTrees ==
    {TreeRename, TreeStrings, TreeConst42, TreeNested, TreeFunction, TreeImports,
     TreeCalls, TreeClass, TreeQuoted, TreeForIn, TreeNestedCalls, TreeIfVar}

\* Generated trees: every shape of at most MaxNodes nodes, every labelling
\* with the types of GenTypes.  A shape is a parent vector in pre-order:
\* the parent of node i is node i - 1 or one of its ancestors.
GenTypes == {"identifier", "string", "template_string"}

RECURSIVE onPath(_, _, _)
onPath(par, a, b) == IF b = 0 THEN FALSE ELSE a = b \/ onPath(par, a, par[b])

ParentVectors(n) ==
    {par \in [1 .. n -> 0 .. n - 1] :
        /\ par[1] = 0
        /\ \A i \in 2 .. n : par[i] >= 1 /\ onPath(par, par[i], i - 1)}

\* A leaf of a generated tree is one character of source, the first letter
\* of its type; an inner node spans its leaves.
GenLeaves(par, n) == {i \in 1 .. n : \A j \in 1 .. n : par[j] # i}

RECURSIVE leafText(_, _)
leafText(ty, ls) ==
    IF ls = <<>> THEN "" ELSE slice(ty[Head(ls)], 0, 1) \o leafText(ty, Tail(ls))

GenTree(par, ty, n) ==
    LET leaves == GenLeaves(par, n)
        first(i) == Cardinality({l \in leaves : l < i})
        span(i) == Cardinality({l \in leaves : onPath(par, i, l)})
    IN  [source |-> leafText(ty, ascending(leaves)),
         nodes |-> [i \in 1 .. n |->
                      Node(ty[i], first(i), first(i) + span(i), par[i], "")]]

GenTrees ==
    UNION {{GenTree(par, ty, n) : par \in ParentVectors(n), ty \in [1 .. n -> GenTypes]}
           : n \in 1 .. MaxNodes}

QueryTrees == {TreeConst, TreeCompare} \cup GenTrees

\* Two-part selectors: a left and a right simple selector joined by the
\* child combinator or by whitespace.
LeftSelectors == {"string", ":not(constructor > identifier)"}

RightSelectors == {"identifier", "string"}

ChildPattern(l, r) == l \o " > " \o r

DescendantPattern(l, r) == l \o " " \o r

CombinatorPatterns ==
    {ChildPattern(l, r) : l \in LeftSelectors, r \in RightSelectors}
    \cup {DescendantPattern(l, r) : l \in LeftSelectors, r \in RightSelectors}

\* Three-part selector sequences: three type selectors joined by the child
\* combinator or by whitespace.
Combinators == {" > ", " "}

SequencePattern(a, c1, b, c2, c) == a \o c1 \o b \o c2 \o c

SequencePatterns ==
    {SequencePattern("string", c1, "identifier", c2, "template_string") :
        c1 \in Combinators, c2 \in Combinators}

\* Attribute selectors on text: [text<op>"<v>"], a quote inside v written
\* with a backslash before it.
TextOperators == {"=", "^=", "$=", "*=", "~="}

TextValues == {"", "x", "s", "\"a\""}

RECURSIVE escapeQuotes(_)
escapeQuotes(v) ==
    IF v = "" THEN ""
    ELSE (IF charAt(v, 0) = "\"" THEN "\\\"" ELSE charAt(v, 0))
         \o escapeQuotes(sliceFrom(v, 1))

TextPattern(op, v) == "[text" \o op \o "\"" \o escapeQuotes(v) \o "\"]"

TextPatterns == {TextPattern(op, v) : op \in TextOperators, v \in TextValues}

\* Selectors followed by :has(X), for inner selector texts X.
HasSubjects == {"identifier", "string"}

HasArguments ==
    {"identifier", "string", TextPattern("=", "("), ":not(constructor > identifier)"}

HasPattern(subject, x) == subject \o ":has(" \o x \o ")"

NotHasPattern(subject, x) == subject \o ":not(:has(" \o x \o "))"

HasPatterns == {HasPattern(subject, x) : subject \in HasSubjects, x \in HasArguments}

\* The patterns given to find and findAll.
FailClosedPatterns == {"[", ">", "::invalid", ""}

Patterns ==
    FailClosedPatterns
    \cup {"identifier[", "identifier >", "> identifier", ":has(",
          "identifier:has([)", "identifier:not([)", ":not(>)",
          "string identifier:not(])"}
    \cup {"identifier", "string", "template", "template_string", "const",
          "lexical_declaration", "program", "variable", "constructor"}
    \cup {"string identifier", "string > identifier", "program > string identifier",
          "identifier, string", "string, template", "identifier, template_string",
          "identifier:has(string)", ":has(identifier)",
          ":not(:has(identifier))", "string:not(:has(template))",
          "[text*=\"i\"]", "[name=x]", ":not(constructor > identifier)",
          "template > :not(string)"}
    \cup CombinatorPatterns
    \cup SequencePatterns
    \cup TextPatterns
    \cup HasPatterns

--------------------------------------------------------------------------
(* The transform session *)

\* The edits a caller can queue: start <= end (the Edit data model), with
\* offsets from one before the source to one past its end.
Ranges(src) ==
    {r \in (-1 .. Len(src)) \X (-1 .. Len(src) + 1) : r[1] <= r[2]}

EditsOver(src) ==
    {Edit(r[1], r[2], t) : r \in {q \in Ranges(src) : q[1] = q[2]}, t \in InsertTexts}
    \cup
    {Edit(r[1], r[2], t) : r \in {q \in Ranges(src) : q[1] < q[2]}, t \in ReplaceTexts}

\* new Transform(root, sourceCode): no edits.
Init ==
    /\ sourceCode \in Sources
    /\ edits = <<>>
    /\ outcome = NoOutcome
    /\ lastOp = "new"
    /\ renders = "none"
    /\ tree = TreeAbc
    /\ queryOp = "none"
    /\ queryAt = 0
    /\ queryPattern = ""
    /\ queryResult = NoResult
    /\ lastCall = NoCall
    /\ visit = NoVisit
    /\ sessions = NoSessions
    /\ cachedChildren = <<>>

\* An operation that queues one edit, this.edits.push(edit), and returns
\* the session (every operation ends with "return this").
Push(edit) ==
    /\ Len(edits) < MaxEdits
    /\ edits' = Append(edits, edit)
    /\ outcome' = ReturnedThis
    /\ lastOp' = "push"
    /\ UNCHANGED <<sourceCode, renders, tree, query, lastCall, beside>>

\* Mutant of CallToString: the edits are sorted in place instead of in a copy.
CallToStringInPlace ==
    /\ outcome' = toString(sourceCode, edits)
    /\ edits' = sortByStartDesc(edits)
    /\ lastOp' = "toString"
    /\ renders' = IF renders = "none" THEN "once" ELSE "again"
    /\ UNCHANGED <<sourceCode, tree, query, lastCall, beside>>

\* A call of Transform.toString: both sorts work on copies ([...this.edits])
\* and result is a local, so the session keeps its edits and its source.
CallToString ==
    /\ outcome' = toString(sourceCode, edits)
    /\ lastOp' = "toString"
    /\ renders' = IF renders = "none" THEN "once" ELSE "again"
    /\ UNCHANGED <<sourceCode, edits, tree, query, lastCall, beside>>

Next ==
    \/ \E edit \in EditsOver(sourceCode) : Push(edit)
    \/ CallToString

Spec == Init /\ [][Next]_vars

--------------------------------------------------------------------------
(* Queries on a parsed tree *)

\* parse(source) gave a tree; the session is not used.  The node and the
\* pattern of the queries to come are drawn here.
QueryInit ==
    /\ tree \in QueryTrees
    /\ sourceCode = tree.source
    /\ edits = <<>>
    /\ outcome = NoOutcome
    /\ lastOp = "new"
    /\ renders = "none"
    /\ queryOp = "none"
    /\ queryAt \in NodeIds(tree)
    /\ queryPattern \in Patterns
    /\ queryResult = NoResult
    /\ lastCall = NoCall
    /\ visit = NoVisit
    /\ sessions = NoSessions
    /\ cachedChildren = <<>>

\* queryAt.findAll(queryPattern)
FindAll ==
    /\ queryOp' = "findAll"
    /\ queryResult' = findAll(tree, queryAt, queryPattern)
    /\ UNCHANGED <<tree, session, queryAt, queryPattern, beside>>

\* queryAt.find(queryPattern)
Find ==
    /\ queryOp' = "find"
    /\ queryResult' = find(tree, queryAt, queryPattern)
    /\ UNCHANGED <<tree, session, queryAt, queryPattern, beside>>

QueryNext == FindAll \/ Find

QuerySpec == QueryInit /\ [][QueryNext]_vars

--------------------------------------------------------------------------
(* Editing operations on a parsed tree *)

\* tree.transform(): a session on the source of the tree, with no edits.
TransformInit ==
    /\ tree \in TransformTrees
    /\ sourceCode = tree.source
    /\ edits = <<>>
    /\ outcome = NoOutcome
    /\ lastOp = "new"
    /\ renders = "none"
    /\ queryOp = "none"
    /\ queryAt = 0
    /\ queryPattern = ""
    /\ queryResult = NoResult
    /\ lastCall = NoCall
    /\ visit = NoVisit
    /\ sessions = NoSessions
    /\ cachedChildren = <<>>

\* findAll raised inside an operation: the TypeError leaves the operation,
\* which has pushed nothing; otherwise the operation returns the session.
Raised == [kind |-> "TypeError", value |-> "", error |-> "", carried |-> <<>>]

returns(r) == IF r.kind = "TypeError" THEN Raised ELSE ReturnedThis

Rename(oldName, newName) ==
    /\ lastCall.nth < MaxCalls
    /\ edits' = edits \o rename(tree, oldName, newName)
    /\ outcome' = ReturnedThis
    /\ lastOp' = "rename"
    /\ lastCall' = Call("rename", <<oldName, newName>>, Len(edits), lastCall.nth + 1)
    /\ UNCHANGED <<sourceCode, renders, tree, query, beside>>

\* The rename just called is chained once more:
\* t.rename(oldName, newName).rename(oldName, newName).
RenameAgain ==
    /\ lastCall.op = "rename"
    /\ lastCall.nth < MaxCalls + MaxRepeats
    /\ edits' = edits \o rename(tree, lastCall.args[1], lastCall.args[2])
    /\ outcome' = ReturnedThis
    /\ lastOp' = "rename"
    /\ lastCall' = Call("rename", lastCall.args, Len(edits), lastCall.nth + 1)
    /\ UNCHANGED <<sourceCode, renders, tree, query, beside>>

\* renameIdentifier(oldName, newName): findAll('identifier') takes no
\* argument of the caller and cannot raise.
RenameIdentifier(oldName, newName) ==
    /\ lastCall.nth < MaxCalls
    /\ edits' = edits \o renameIdentifier(tree, oldName, newName)
    /\ outcome' = ReturnedThis
    /\ lastOp' = "renameIdentifier"
    /\ lastCall' = Call("renameIdentifier", <<oldName, newName>>, Len(edits),
                        lastCall.nth + 1)
    /\ UNCHANGED <<sourceCode, renders, tree, query, beside>>

\* The calls of replaceIn: the string types with a string pattern and with
\* a regular expression, with and without the g flag; the other types with
\* a string pattern.
ReplaceCalls ==
    ({"string", "string_fragment"} \X {Literal("a"), RegExp("a", TRUE), RegExp("a", FALSE)})
    \cup ({"constructor", "call_expression"} \X {Literal("a")})

ReplaceIn(nodeType, pattern, replacement) ==
    /\ lastCall.nth < MaxCalls
    /\ edits' = edits \o replaceIn(tree, findAll(tree, 1, nodeType).nodes,
                                   pattern, replacement)
    /\ outcome' = returns(findAll(tree, 1, nodeType))
    /\ lastOp' = "replaceIn"
    /\ lastCall' = Call("replaceIn", <<nodeType, pattern, replacement>>, Len(edits),
                        lastCall.nth + 1)
    /\ UNCHANGED <<sourceCode, renders, tree, query, beside>>

Remove(pattern) ==
    /\ lastCall.nth < MaxCalls
    /\ edits' = edits \o remove(tree, findAll(tree, 1, actualPattern(pattern)).nodes)
    /\ outcome' = returns(findAll(tree, 1, actualPattern(pattern)))
    /\ lastOp' = "remove"
    /\ lastCall' = Call("remove", <<pattern>>, Len(edits), lastCall.nth + 1)
    /\ UNCHANGED <<sourceCode, renders, tree, query, beside>>

RemoveUnusedImports ==
    /\ lastCall.nth < MaxCalls
    /\ edits' = edits \o removeUnusedImports(tree)
    /\ outcome' = ReturnedThis
    /\ lastOp' = "removeUnusedImports"
    /\ lastCall' = Call("removeUnusedImports", <<>>, Len(edits), lastCall.nth + 1)
    /\ UNCHANGED <<sourceCode, renders, tree, query, beside>>

\* The selectors given to insertBefore and insertAfter.
InsertPatterns ==
    {"const", "return_statement", "[text=\"return\"]", "number", "method", "constructor",
     "[text=\"for\"]", "[text=\"const\"]", "let", "var", "return", "if", "for", "while",
     "class"}

\* The calls of insertBefore and insertAfter: every selector with one
\* text, the statement selectors with a second one that ends with a space.
InsertCalls ==
    (InsertPatterns \X {" console.log(x);"})
    \cup ({"return_statement", "const"} \X {"console.log(\"returning\"); "})

InsertBefore(pattern, str) ==
    /\ lastCall.nth < MaxCalls
    /\ edits' = edits \o insertBefore(tree, findAll(tree, 1, pattern).nodes, str)
    /\ outcome' = returns(findAll(tree, 1, pattern))
    /\ lastOp' = "insertBefore"
    /\ lastCall' = Call("insertBefore", <<pattern, str>>, Len(edits), lastCall.nth + 1)
    /\ UNCHANGED <<sourceCode, renders, tree, query, beside>>

InsertAfter(pattern, str) ==
    /\ lastCall.nth < MaxCalls
    /\ edits' = edits \o insertAfter(tree, findAll(tree, 1, pattern).nodes, str)
    /\ outcome' = returns(findAll(tree, 1, pattern))
    /\ lastOp' = "insertAfter"
    /\ lastCall' = Call("insertAfter", <<pattern, str>>, Len(edits), lastCall.nth + 1)
    /\ UNCHANGED <<sourceCode, renders, tree, query, beside>>

TransformNext ==
    \/ \E oldName \in {"x", "o", "f"} : Rename(oldName, "yy")
    \/ RenameAgain
    \/ \E oldName \in {"x", "o"} : RenameIdentifier(oldName, "yy")
    \/ \E call \in ReplaceCalls : ReplaceIn(call[1], call[2], "b")
    \/ \E pattern \in {"variable_declarator[name=\"f\"]", "variable_declarator[name=\"a\"]",
                         "variable[name=\"x\"]", "variable_declarator", "call_expression",
                         "console.log", "test()", "number", "constructor", "const",
                         "return_statement", "expression_statement"} :
            Remove(pattern)
    \/ RemoveUnusedImports
    \/ \E call \in InsertCalls : InsertBefore(call[1], call[2])
    \/ \E call \in InsertCalls : InsertAfter(call[1], call[2])
    \/ CallToString

TransformSpec == TransformInit /\ [][TransformNext]_vars

--------------------------------------------------------------------------
(* TreeVisitor: a traversal with enter and exit callbacks *)

\* A call of visitNode on the stack: its node and the child its for loop
\* visits next; 0 before the enter callback.
Frame(n) == [node |-> n, next |-> 0]

\* What a callback returns: only the value false stops the traversal.
CallbackResults == {"undefined", "true", "false"}

VisitTrees == {TreeAbc, TreeFunction} \cup GenTrees

\* node.visit(visitor): visitNode(node, visitor, undefined) is on the
\* stack.  A visitor has an enter callback, an exit callback, both or none;
\* a function given as the visitor is an enter callback.
VisitInit ==
    /\ tree \in VisitTrees
    /\ sourceCode = tree.source
    /\ edits = <<>>
    /\ outcome = NoOutcome
    /\ lastOp = "new"
    /\ renders = "none"
    /\ queryOp = "none"
    /\ queryAt \in NodeIds(tree)
    /\ queryPattern = ""
    /\ queryResult = NoResult
    /\ lastCall = NoCall
    /\ visit \in {[status |-> "running", enter |-> e, exit |-> x,
                   stack |-> <<Frame(queryAt)>>, events |-> <<>>,
                   returnedFalse |-> FALSE] : e \in BOOLEAN, x \in BOOLEAN}
    /\ sessions = NoSessions
    /\ cachedChildren = <<>>

\* The call of visitNode that is running.
top(v) == v.stack[Len(v.stack)]

\* Mutant of returnFalse: the call that got false returns, and its caller
\* goes on.
returnFalseOnce(v) ==
    [v EXCEPT !.stack = SubSeq(@, 1, Len(@) - 1),
              !.status = IF Len(v.stack) = 1 THEN "stopped" ELSE "running"]

\* visitNode returns false: the loop of each caller sees !shouldContinue
\* and returns false too, down to visit, which drops the value.
returnFalse(v) == [v EXCEPT !.stack = <<>>, !.status = "stopped"]

\* visitNode returns true to its caller, or to visit.
returnTrue(v) ==
    [v EXCEPT !.stack = SubSeq(@, 1, Len(@) - 1),
              !.status = IF Len(v.stack) = 1 THEN "done" ELSE "running"]

\* A callback was called on the node of the running call and returned.
called(v, kind, result) ==
    [v EXCEPT !.events = Append(@, <<kind, top(v).node>>),
              !.returnedFalse = (result = "false")]

\* The head of visitNode: visitor.enter(node, parent) if there is one, and
\* return false when it returned false; then the loop begins.
Enter(result) ==
    /\ visit.status = "running"
    /\ top(visit).next = 0
    /\ visit' = IF visit.enter /\ result = "false"
                THEN returnFalse(called(visit, "enter", result))
                ELSE IF visit.enter
                THEN [called(visit, "enter", result) EXCEPT !.stack[Len(visit.stack)].next = 1]
                ELSE [visit EXCEPT !.stack[Len(visit.stack)].next = 1]
    /\ UNCHANGED <<tree, session, query, sessions, cachedChildren>>

\* for (const child of node.children) visitNode(child, visitor, node)
Descend ==
    /\ visit.status = "running"
    /\ top(visit).next \in 1 .. Len(children(tree, top(visit).node))
    /\ visit' = [visit EXCEPT
                    !.stack = Append([@ EXCEPT ![Len(@)].next = top(visit).next + 1],
                                     Frame(children(tree, top(visit).node)[top(visit).next]))]
    /\ UNCHANGED <<tree, session, query, sessions, cachedChildren>>

\* The tail of visitNode, after the loop: visitor.exit(node, parent) if
\* there is one, return false when it returned false, return true otherwise.
Exit(result) ==
    /\ visit.status = "running"
    /\ top(visit).next > Len(children(tree, top(visit).node))
    /\ visit' = IF visit.exit /\ result = "false"
                THEN returnFalse(called(visit, "exit", result))
                ELSE IF visit.exit
                THEN returnTrue(called(visit, "exit", result))
                ELSE returnTrue(visit)
    /\ UNCHANGED <<tree, session, query, sessions, cachedChildren>>

VisitNext ==
    \/ \E result \in CallbackResults : Enter(result)
    \/ Descend
    \/ \E result \in CallbackResults : Exit(result)

VisitSpec == VisitInit /\ [][VisitNext]_vars

--------------------------------------------------------------------------
(* Claims about the render step *)

Rendered == lastOp = "toString"

\* Two edits share at least one byte of the source.
ShareByte(a, b) == Max(a.start, b.start) < Min(a.end, b.end)

SomeShareByte(es) ==
    \E i, j \in 1 .. Len(es) : i # j /\ ShareByte(es[i], es[j])

InQueue(e, es) == \E i \in 1 .. Len(es) : es[i] = e

\* C1: whenever two of the queued edits share at least one byte, toString
\* throws the overlap TransformError, which carries two queued edits of
\* which the second starts inside the first, and returns no string.
C1_OverlapRaises ==
    (Rendered /\ SomeShareByte(edits)) =>
        /\ outcome.kind = "TransformError"
        /\ outcome.error = "Overlapping edits detected"
        /\ outcome.value = ""
        /\ Len(outcome.carried) = 2
        /\ InQueue(outcome.carried[1], edits)
        /\ InQueue(outcome.carried[2], edits)
        /\ outcome.carried[1].start <= outcome.carried[2].start
        /\ outcome.carried[2].start < outcome.carried[1].end

C1_Witness ==
    /\ Rendered
    /\ Len(edits) = 2
    /\ edits[1] = Edit(1, 3, "")
    /\ edits[2] = Edit(0, 2, "X")
    /\ outcome = Thrown("Overlapping edits detected", <<edits[2], edits[1]>>)

\* The permutations of 1 .. n.
Orderings(n) ==
    {f \in [1 .. n -> 1 .. n] : \A i, j \in 1 .. n : f[i] = f[j] => i = j}

Permute(es, f) == [i \in 1 .. Len(es) |-> es[f[i]]]

\* The same output string, or a failure in both.
SameResult(a, b) == a.kind = b.kind /\ a.value = b.value

\* C2: the order in which the edits were queued does not affect the render
\* outcome: every reordering of the queue renders to the same string, or
\* fails like it.
C2_OrderIndependent ==
    Rendered =>
        \A f \in Orderings(Len(edits)) :
            SameResult(toString(sourceCode, Permute(edits, f)), outcome)

\* The left-to-right walk over the source for edits given in walk order:
\* the bytes between the edits are copied, each range gives its text.
RECURSIVE walk(_, _, _)
walk(src, ordered, from) ==
    IF ordered = <<>> THEN sliceFrom(src, from)
    ELSE slice(src, from, Head(ordered).start) \o Head(ordered).text
             \o walk(src, Tail(ordered), Head(ordered).end)

\* The orders in which a left-to-right walk can meet the edits: each edit
\* ends before the next one starts.
WalkOrders(es) ==
    {f \in Orderings(Len(es)) :
        \A i \in 1 .. Len(es) - 1 : es[f[i]].end <= es[f[i + 1]].start}

\* C3: when the edits pass validation and toString returns, the string is
\* the left-to-right walk of the source with each range replaced by its
\* text and every other byte kept (with no edits: the source).
C3_RenderIsWalk ==
    (Rendered /\ outcome.kind = "string") =>
        \E f \in WalkOrders(edits) :
            outcome.value = walk(sourceCode, Permute(edits, f), 0)

SomeOutOfRange(es, src) ==
    \E i \in 1 .. Len(es) : es[i].start < 0 \/ es[i].end > Len(src)

\* C4: if some queued edit starts below 0 or ends beyond the source
\* length, toString throws a TransformError and returns no string.
C4_OutOfBoundsRaises ==
    (Rendered /\ SomeOutOfRange(edits, sourceCode)) =>
        outcome.kind = "TransformError" /\ outcome.value = ""

C4_Witness ==
    /\ Rendered
    /\ Len(edits) = 2
    /\ edits[1] = Edit(0, 1, "X")
    /\ edits[2] = Edit(2, Len(sourceCode) + 1, "")
    /\ outcome = Thrown("Edit out of bounds", <<edits[2]>>)

--------------------------------------------------------------------------
(* Claims about patterns and queries *)

Queried == queryOp \in {"find", "findAll"}

\* The query found nothing and did not raise: findAll returned an empty
\* sequence, find returned null.
FoundNothing ==
    /\ queryOp = "findAll" => queryResult = Nodes(<<>>)
    /\ queryOp = "find" => queryResult = Null

RECURSIVE pseudoArguments(_)
pseudoArguments(selector) ==
    IF selector.type = "pseudo"
    THEN IF selector.name \in {"has", "not"} /\ selector.value # ""
         THEN {selector.value} ELSE {}
    ELSE IF selector.type \in {"child", "descendant"}
    THEN pseudoArguments(selector.left) \cup pseudoArguments(selector.right)
    ELSE IF selector.type = "combination"
    THEN UNION {pseudoArguments(selector.selectors[i]) :
                    i \in 1 .. Len(selector.selectors)}
    ELSE {}

\* Some part of the pattern is rejected by the selector grammar: the parser
\* throws on the pattern, or on the argument of one of its :has / :not.
RECURSIVE Rejected(_)
Rejected(p) ==
    LET input == trim(p)
        r == parseSelector(input)
    IN  /\ input # ""
        /\ \/ ~r.ok
           \/ \E arg \in pseudoArguments(r.sel) : Rejected(arg)

\* C7: for every pattern of which some part is rejected by the selector
\* grammar, at top level or inside a :has(...) or :not(...) argument, the
\* query matches no node: findAll returns an empty sequence, find returns
\* null, and neither raises.
C7_FailClosedEverywhere ==
    (Queried /\ Rejected(queryPattern)) => FoundNothing

\* The nodes of the subtree of x on which the compiled predicate is true,
\* and whether it raises on one of them.
matching(t, x, selector) ==
    {n \in subtree(t, x) : compilePredicate(selector, t, n) = "true"}

raising(t, x, selector) ==
    \E n \in subtree(t, x) : compilePredicate(selector, t, n) = "throw"

\* Document order: a is an ancestor of b, or below their lowest common
\* ancestor the child leading to a stands left of the child leading to b.
depth(t, n) == Cardinality(ancestorsOrSelf(t, n))

indexOf(seq, v) == CHOOSE i \in 1 .. Len(seq) : seq[i] = v

before(t, a, b) ==
    \/ a # b /\ a \in ancestorsOrSelf(t, b)
    \/ /\ a \notin ancestorsOrSelf(t, b)
       /\ b \notin ancestorsOrSelf(t, a)
       /\ LET common == ancestorsOrSelf(t, a) \cap ancestorsOrSelf(t, b)
              c == CHOOSE x \in common : \A y \in common : depth(t, y) <= depth(t, x)
              ca == CHOOSE k \in ancestorsOrSelf(t, a) : t.nodes[k].parent = c
              cb == CHOOSE k \in ancestorsOrSelf(t, b) : t.nodes[k].parent = c
          IN  indexOf(children(t, c), ca) < indexOf(children(t, c), cb)

\* ns holds exactly the nodes of S, each once, in document order.
InPreOrder(t, ns, S) ==
    /\ {ns[i] : i \in 1 .. Len(ns)} = S
    /\ \A i, j \in 1 .. Len(ns) : i < j => before(t, ns[i], ns[j])

\* C8: X.findAll returns exactly the nodes of the subtree of X, X included,
\* on which the compiled predicate is true, each once, a node before its
\* descendants and siblings left to right; the tree is not changed.
C8_FindAllPreOrder ==
    /\ [](queryOp = "findAll" =>
            /\ queryResult.kind = "nodes"
            /\ InPreOrder(tree, queryResult.nodes,
                          matching(tree, queryAt, parsePattern(queryPattern))))
    /\ [][Queried' => tree' = tree]_vars

\* The same for the queries whose predicate raises on no node of the
\* subtree; when it raises on one, findAll raises.
FindAllPreOrderUnlessRaised ==
    queryOp = "findAll" =>
        LET selector == parsePattern(queryPattern)
        IN  IF raising(tree, queryAt, selector)
            THEN queryResult = TypeError
            ELSE /\ queryResult.kind = "nodes"
                 /\ InPreOrder(tree, queryResult.nodes,
                               matching(tree, queryAt, selector))

\* C9: X.find(p) returns the first element of the sequence X.findAll(p)
\* returns, and null exactly when that sequence is empty; when findAll(p)
\* raises, find(p) raises as well.
C9_FindIsFirstOfFindAll ==
    queryOp = "find" =>
        LET all == findAll(tree, queryAt, queryPattern)
        IN  IF all.kind = "nodes"
            THEN IF all.nodes = <<>> THEN queryResult = Null
                 ELSE queryResult = OneNode(Head(all.nodes))
            ELSE queryResult = all

\* The same for the patterns on which findAll returns.
FindIsFirstOfFindAllUnlessRaised ==
    queryOp = "find" =>
        LET all == findAll(tree, queryAt, queryPattern)
        IN  all.kind = "nodes" =>
                IF all.nodes = <<>> THEN queryResult = Null
                ELSE queryResult = OneNode(Head(all.nodes))

\* A bare type name: an identifier and nothing else.
IsTypeName(p) ==
    /\ p # ""
    /\ isIdentifierStart(p, 0)
    /\ identifierEnd(p, 0) = Len(p)

\* The nodes findAll(name) returns from queryAt, as a set.
foundBy(typeName) ==
    LET r == findAll(tree, queryAt, typeName)
    IN  {r.nodes[i] : i \in 1 .. Len(r.nodes)}

\* C10: findAll(alias) returns, in pre-order, exactly the union of
\* findAll(t) over the concrete types t of the alias; a type name with no
\* entry in the alias table matches exactly the nodes of that raw type.
C10_AliasOrLiteralType ==
    (queryOp = "findAll" /\ IsTypeName(queryPattern)) =>
        /\ queryResult.kind = "nodes"
        /\ IF queryPattern \in DOMAIN NODE_TYPE_ALIASES
           THEN InPreOrder(tree, queryResult.nodes,
                           UNION {foundBy(ty) : ty \in NODE_TYPE_ALIASES[queryPattern]})
           ELSE InPreOrder(tree, queryResult.nodes,
                           {n \in subtree(tree, queryAt) :
                                tree.nodes[n].type = queryPattern})


\* Node n matches the pattern: its compiled predicate returns true on n.
matches(p, n) == compilePredicate(parsePattern(p), tree, n) = "true"

\* The nodes the last query returned, as a set.
foundNodes == {queryResult.nodes[i] : i \in 1 .. Len(queryResult.nodes)}

strictAncestors(n) == ancestorsOrSelf(tree, n) \ {n}

\* What the two combinators are to select among the nodes below queryAt.
ChildAndDescendant ==
    \A l \in LeftSelectors, r \in RightSelectors :
        /\ queryPattern = ChildPattern(l, r) =>
              \A n \in subtree(tree, queryAt) :
                  n \in foundNodes <=>
                      /\ matches(r, n)
                      /\ tree.nodes[n].parent # 0
                      /\ matches(l, tree.nodes[n].parent)
        /\ queryPattern = DescendantPattern(l, r) =>
              \A n \in subtree(tree, queryAt) :
                  n \in foundNodes <=>
                      /\ matches(r, n)
                      /\ \E a \in strictAncestors(n) : matches(l, a)

\* C11: 'L > R' selects node N iff N matches R and the parent of N exists
\* and matches L; 'L R' selects N iff N matches R and some strict ancestor
\* of N matches L.
C11_ChildAndDescendant == queryOp = "findAll" => ChildAndDescendant

\* The same for the queries that return.
ChildAndDescendantUnlessRaised ==
    (queryOp = "findAll" /\ queryResult.kind = "nodes") => ChildAndDescendant


\* The nodes a combinator relates to n: its parent, or its strict ancestors.
related(c, n) ==
    IF c = " > " THEN {tree.nodes[n].parent} \ {0} ELSE strictAncestors(n)

\* n is selected as the last part of a sequence nested to the left: n
\* matches the third part, a node related to n matches the second, and a
\* node related to that one matches the first.
NestsLeft(c1, c2) ==
    queryPattern = SequencePattern("string", c1, "identifier", c2, "template_string") =>
        \A n \in subtree(tree, queryAt) :
            n \in foundNodes <=>
                /\ matches("template_string", n)
                /\ \E b \in related(c2, n) :
                      /\ matches("identifier", b)
                      /\ \E a \in related(c1, b) : matches("string", a)

\* C12: 'A B C', 'A > B C', 'A > B > C' and 'A B > C' nest to the left:
\* the node matches C, a strict ancestor (for whitespace) or the parent
\* (for '>') matches B, and an ancestor or the parent of that one matches A.
C12_SequenceNestsLeft ==
    queryOp = "findAll" => \A c1, c2 \in Combinators : NestsLeft(c1, c2)

\* The same for the sequences whose last combinator is '>'.
ChildTailNestsLeft ==
    queryOp = "findAll" => \A c1 \in Combinators : NestsLeft(c1, " > ")


\* v is one of the whitespace-separated tokens of txt: a maximal run of
\* characters that are not whitespace.
IsToken(txt, v) ==
    /\ v # ""
    /\ \A j \in 0 .. Len(v) - 1 : ~isWhitespace(charAt(v, j))
    /\ \E i \in 0 .. Len(txt) - Len(v) :
          /\ slice(txt, i, i + Len(v)) = v
          /\ i = 0 \/ isWhitespace(charAt(txt, i - 1))
          /\ i + Len(v) = Len(txt) \/ isWhitespace(charAt(txt, i + Len(v)))

\* What each operator compares.
Compares(op, txt, v) ==
    IF op = "=" THEN txt = v
    ELSE IF op = "^=" THEN Len(v) <= Len(txt) /\ SubSeq(txt, 1, Len(v)) = v
    ELSE IF op = "$=" THEN Len(v) <= Len(txt)
                           /\ SubSeq(txt, Len(txt) - Len(v) + 1, Len(txt)) = v
    ELSE IF op = "*=" THEN \E i \in 1 .. Len(txt) - Len(v) + 1 :
                               SubSeq(txt, i, i + Len(v) - 1) = v
    ELSE IsToken(txt, v)

TextSelects(op, v) ==
    queryPattern = TextPattern(op, v) =>
        \A n \in subtree(tree, queryAt) :
            n \in foundNodes <=> Compares(op, text(tree, n), v)

\* C13: for every expected value v, the empty string included, [text="v"]
\* selects the nodes whose text equals v, ^= those whose text starts with
\* v, $= ends with v, *= contains v, ~= has v among its whitespace-separated
\* tokens; \" in a quoted value stands for the quote.
C13_TextOperators ==
    queryOp = "findAll" =>
        \A op \in TextOperators, v \in TextValues : TextSelects(op, v)

\* The same for the values that are not empty.
NonEmptyTextOperators ==
    queryOp = "findAll" =>
        \A op \in TextOperators, v \in TextValues \ {""} : TextSelects(op, v)


\* The nodes queryAt.findAll(p) returns, as a set (none when it raises).
selectedBy(p) ==
    LET asSet(r) == {r.nodes[i] : i \in 1 .. Len(r.nodes)}
    IN  asSet(findAll(tree, queryAt, p))

\* findAll(S:has(X)) and findAll(S:not(:has(X))) split findAll(S) in two.
Complementary(subject, x) ==
    queryPattern = HasPattern(subject, x) =>
        LET split(with, without, all) ==
                /\ with \cap without = {}
                /\ with \cup without = all
        IN  split(foundNodes, selectedBy(NotHasPattern(subject, x)),
                  selectedBy(subject))

\* C14: for every selector S and inner selector text X, findAll(S:has(X))
\* and findAll(S:not(:has(X))) are disjoint and their union is findAll(S).
C14_HasNotComplementary ==
    queryOp = "findAll" =>
        \A subject \in HasSubjects, x \in HasArguments : Complementary(subject, x)

\* The same for the inner texts that hold no parenthesis.
HasNotComplementaryPlain ==
    queryOp = "findAll" =>
        \A subject \in HasSubjects, x \in {"identifier", "string"} :
            Complementary(subject, x)


\* S:has(X) selects the nodes that match S and have a strict descendant,
\* at any depth, that matches X.
HasStrictDescendant ==
    \A subject \in HasSubjects, x \in HasArguments :
        queryPattern = HasPattern(subject, x) =>
            \A n \in subtree(tree, queryAt) :
                n \in foundNodes <=>
                    /\ matches(subject, n)
                    /\ \E d \in subtree(tree, n) \ {n} : matches(x, d)

HasStrictDescendantUnlessRaised ==
    (queryOp = "findAll" /\ queryResult.kind = "nodes") => HasStrictDescendant

--------------------------------------------------------------------------
(* Claims on the editing operations *)

\* The edits the last operation pushed, and where it pushed a given edit.
pushedEdits == SubSeq(edits, lastCall.from + 1, Len(edits))

pushedAs(e) == {i \in lastCall.from + 1 .. Len(edits) : edits[i] = e}

\* The session has had one operation, and its edits rendered to a string.
RenderedAlone == lastCall.nth = 1 /\ lastCall.from = 0 /\ outcome.kind = "string"

\* How far the edits that end at or before an offset move it.
RECURSIVE shiftAt(_, _)
shiftAt(es, offset) ==
    IF es = <<>> THEN 0
    ELSE (IF Head(es).end <= offset
          THEN Len(Head(es).text) - (Head(es).end - Head(es).start) ELSE 0)
         + shiftAt(Tail(es), offset)

\* The text a node of the source has in the rendered output.
renderedText(n) ==
    slice(outcome.value,
          tree.nodes[n].startIndex + shiftAt(edits, tree.nodes[n].startIndex),
          tree.nodes[n].endIndex + shiftAt(edits, tree.nodes[n].startIndex))

\* The nodes rename is to replace.
RenameTargets(oldName) ==
    {n \in NodeIds(tree) \ {1} :
        /\ text(tree, n) = oldName
        /\ \/ /\ tree.nodes[n].type = "identifier"
              /\ \A a \in ancestorsOrSelf(tree, n) \ {n} :
                    tree.nodes[a].type \notin {"string", "comment", "string_fragment", "regex"}
           \/ tree.nodes[n].type \in
                 {"property_identifier", "shorthand_property_identifier_pattern"}}

fullEdit(n, str) == Edit(tree.nodes[n].startIndex, tree.nodes[n].endIndex, str)

\* C16: rename(oldName, newName) pushes exactly one edit [start, end) ->
\* newName for each strict descendant of the root that is an identifier
\* with text oldName and no ancestor of type string, comment,
\* string_fragment or regex, or a property_identifier or
\* shorthand_property_identifier_pattern with text oldName, and no other
\* edit; rendered, comments and string contents read as in the source.
C16_RenameEdits ==
    lastCall.op = "rename" =>
        LET targets == RenameTargets(lastCall.args[1])
            newName == lastCall.args[2]
        IN  /\ Len(pushedEdits) = Cardinality(targets)
            /\ \A n \in targets :
                    Cardinality(pushedAs(fullEdit(n, newName)))
                    = Cardinality({m \in targets : fullEdit(m, newName) = fullEdit(n, newName)})
            /\ RenderedAlone =>
                    \A n \in NodeIds(tree) :
                        tree.nodes[n].type \in {"comment", "string_fragment"}
                            => renderedText(n) = text(tree, n)

C16_Witness ==
    /\ lastCall = Call("rename", <<"x", "yy">>, 0, 1)
    /\ tree = TreeRename
    /\ Len(edits) = 3
    /\ outcome = Returned("yy;\n\"x\";\no.yy; // x\nconst {yy} = o;")

\* The text with every occurrence of a search text replaced.
RECURSIVE substituteAll(_, _, _)
substituteAll(str, search, replacement) ==
    IF Len(str) < Len(search) \/ str = "" THEN str
    ELSE IF slice(str, 0, Len(search)) = search
    THEN replacement \o substituteAll(sliceFrom(str, Len(search)), search, replacement)
    ELSE charAt(str, 0) \o substituteAll(sliceFrom(str, 1), search, replacement)

\* The edits of replaceIn when each selected node whose text changes gets
\* its text with a given substitution.
substitutedEdits(substitute(_)) ==
    LET ns == findAll(tree, 1, lastCall.args[1]).nodes
        changed == SelectSeq(ns, LAMBDA n : substitute(text(tree, n)) # text(tree, n))
    IN  [i \in 1 .. Len(changed) |-> fullEdit(changed[i], substitute(text(tree, changed[i])))]

\* C17: replaceIn(nodeType, pattern, replacement) queues, for each selected
\* node, the text of the node with every occurrence of the pattern
\* replaced, for a string pattern as for a regular expression.
C17_ReplaceInGlobal ==
    lastCall.op = "replaceIn" =>
        pushedEdits
        = substitutedEdits(LAMBDA str : substituteAll(str, lastCall.args[2].source, lastCall.args[3]))

\* With a regular expression that has the g flag every occurrence is
\* replaced; with a string, or without the flag, the first one is.
ReplaceInGlobalFlag ==
    (lastCall.op = "replaceIn" /\ findAll(tree, 1, lastCall.args[1]).kind # "TypeError") =>
        pushedEdits
        = substitutedEdits(LAMBDA str :
            IF lastCall.args[2].kind = "RegExp" /\ lastCall.args[2].global
            THEN substituteAll(str, lastCall.args[2].source, lastCall.args[3])
            ELSE replaceFirst(str, lastCall.args[2].source, lastCall.args[3]))

\* The variable declarators the selector of the last remove matched that
\* are the only declarator among the children of their declaration.
SoleDeclarators ==
    {n \in NodeIds(tree) :
        /\ \E i \in 1 .. Len(findAll(tree, 1, actualPattern(lastCall.args[1])).nodes) :
               findAll(tree, 1, actualPattern(lastCall.args[1])).nodes[i] = n
        /\ tree.nodes[n].type = "variable_declarator"
        /\ tree.nodes[n].parent # 0
        /\ \A m \in NodeIds(tree) :
               (tree.nodes[m].parent = tree.nodes[n].parent
                /\ tree.nodes[m].type = "variable_declarator") => m = n}

\* A pushed edit removes a node whole.
RemovedWhole(n) ==
    \E i \in 1 .. Len(pushedEdits) :
        /\ pushedEdits[i].text = ""
        /\ pushedEdits[i].start <= tree.nodes[n].startIndex
        /\ pushedEdits[i].end >= tree.nodes[n].endIndex

\* C18: for every variable_declarator matched by remove(pattern) that is
\* the only declarator of its declaration, the whole declaration is
\* removed, whatever its initializer holds.
C18_SoleDeclaratorRemovesDeclaration ==
    lastCall.op = "remove" =>
        \A n \in SoleDeclarators : RemovedWhole(tree.nodes[n].parent)

\* The same, for the declarators that have no variable_declarator below
\* them.
SoleDeclaratorWithoutNested ==
    lastCall.op = "remove" =>
        \A n \in SoleDeclarators :
            (\A m \in subtree(tree, n) \ {n} : tree.nodes[m].type # "variable_declarator")
                => RemovedWhole(tree.nodes[n].parent)

\* The used set: the texts of the identifier nodes outside every import
\* statement.
UsedSet ==
    {text(tree, n) : n \in {m \in NodeIds(tree) :
        /\ tree.nodes[m].type = "identifier"
        /\ \A a \in ancestorsOrSelf(tree, m) : tree.nodes[a].type # "import_statement"}}

\* The nodes that bind a name in an import statement: the identifier of
\* the import clause, the name and the alias of each specifier (or, with
\* byAlias false, the name alone) and the identifier of the namespace
\* import.
BindingNodes(importNode, byAlias) ==
    {n \in subtree(tree, importNode) \ {importNode} :
        \/ /\ tree.nodes[n].type = "identifier"
           /\ tree.nodes[tree.nodes[n].parent].type \in {"import_clause", "namespace_import"}
        \/ /\ tree.nodes[tree.nodes[n].parent].type = "import_specifier"
           /\ tree.nodes[n].field \in (IF byAlias THEN {"name", "alias"} ELSE {"name"})}

ImportRemoved(importNode) ==
    \E i \in 1 .. Len(pushedEdits) :
        /\ pushedEdits[i].start = tree.nodes[importNode].startIndex
        /\ pushedEdits[i].end >= tree.nodes[importNode].endIndex
        /\ pushedEdits[i].end <= tree.nodes[importNode].endIndex + 1
        /\ pushedEdits[i].text = ""

RemovedIffUnused(byAlias) ==
    \A importNode \in {n \in NodeIds(tree) : tree.nodes[n].type = "import_statement"} :
        ImportRemoved(importNode)
        <=> \A n \in BindingNodes(importNode, byAlias) : text(tree, n) \notin UsedSet

\* C19: removeUnusedImports queues a removal for an import statement iff
\* none of its bindings (default binding, each specifier by its name or by
\* its alias, namespace binding) is in the used set: import {a as b} with
\* b used is kept.
C19_ImportsKeptByAlias ==
    lastCall.op = "removeUnusedImports" => RemovedIffUnused(TRUE)

\* The same with each specifier taken by its name alone.
ImportsKeptByName ==
    lastCall.op = "removeUnusedImports" => RemovedIffUnused(FALSE)

Inserted == lastCall.op \in {"insertBefore", "insertAfter"}

\* The nodes the pattern of the last insert selected, each keyword node
\* replaced by its nearest statement.
InsertTargets ==
    LET widened(ns) == [i \in 1 .. Len(ns) |-> targetNode(tree, ns[i])]
    IN  widened(findAll(tree, 1, lastCall.args[1]).nodes)

insertOffset(n) ==
    IF lastCall.op = "insertBefore" THEN tree.nodes[n].startIndex ELSE tree.nodes[n].endIndex

\* C20: insertBefore and insertAfter insert the text exactly as given, at
\* the start (insertBefore) or at the end (insertAfter) of each target; the
\* rendered output is the source with the text at those offsets and no
\* character added, dropped or moved.
C20_InsertExact ==
    Inserted =>
        /\ Len(pushedEdits) = Len(InsertTargets)
        /\ \A i \in 1 .. Len(pushedEdits) :
               pushedEdits[i]
               = Edit(insertOffset(InsertTargets[i]), insertOffset(InsertTargets[i]),
                      lastCall.args[2])
        /\ RenderedAlone =>
               Len(outcome.value) = Len(sourceCode) + Len(pushedEdits) * Len(lastCall.args[2])

\* The text is as given for the targets that are no statement, function,
\* method or class; the offsets are as stated for every target.
InsertExactBelowStatements ==
    Inserted =>
        /\ Len(pushedEdits) = Len(InsertTargets)
        /\ \A i \in 1 .. Len(pushedEdits) :
               /\ pushedEdits[i].start = insertOffset(InsertTargets[i])
               /\ pushedEdits[i].end = insertOffset(InsertTargets[i])
               /\ ~isStatementLevel(tree.nodes[InsertTargets[i]].type)
                      => pushedEdits[i].text = lastCall.args[2]

\* The nodes the selector of the last remove matched, in the order found.
RemoveMatches == findAll(tree, 1, actualPattern(lastCall.args[1])).nodes

\* The removal target of a matched node: the declaration of a
\* variable_declarator that is the one declarator at or below its parent,
\* the node itself otherwise.
RemovalTarget(n) ==
    IF /\ tree.nodes[n].type = "variable_declarator"
       /\ tree.nodes[n].parent # 0
       /\ Cardinality({m \in subtree(tree, tree.nodes[n].parent) :
                          tree.nodes[m].type = "variable_declarator"}) = 1
    THEN tree.nodes[n].parent
    ELSE n

StatementLike(n) ==
    tree.nodes[n].type \in
        {"expression_statement", "variable_declaration", "lexical_declaration",
         "import_statement", "export_statement", "return_statement", "if_statement",
         "for_statement", "while_statement", "function_declaration", "class_declaration"}

\* The offsets of the newlines of the source at or after an offset.
NewlinesFrom(offset) ==
    {j \in offset .. Len(sourceCode) - 1 : charAt(sourceCode, j) = "\n"}

\* The edit covers the lines of a target: it starts at the start of a
\* line and ends past the first newline after the target, or at the end
\* of the source.
CoversLines(e, target) ==
    /\ e.start <= tree.nodes[target].startIndex
    /\ tree.nodes[target].endIndex <= e.end
    /\ e.start = 0 \/ charAt(sourceCode, e.start - 1) = "\n"
    /\ \/ e.end = Len(sourceCode)
       \/ /\ NewlinesFrom(tree.nodes[target].endIndex) # {}
          /\ \A j \in NewlinesFrom(tree.nodes[target].endIndex) : e.end <= j + 1
          /\ e.end - 1 \in NewlinesFrom(tree.nodes[target].endIndex)

InsertMatches == findAll(tree, 1, lastCall.args[1]).nodes

\* The statement-like strict ancestors of a node, and the nearest of them.
StatementAncestors(n) ==
    {a \in ancestorsOrSelf(tree, n) \ {n} : StatementLike(a)}

NearestStatement(n) ==
    CHOOSE a \in StatementAncestors(n) :
        \A b \in StatementAncestors(n) : b \in ancestorsOrSelf(tree, a)

KeywordNode(n) ==
    tree.nodes[n].type \in {"const", "let", "var", "return", "if", "for", "while"}

\* C23: insertBefore and insertAfter push, for a matched node of type
\* const, let, var, return, if, for or while, a zero-length edit at the
\* start (insertBefore) or the end (insertAfter) of its nearest strict
\* ancestor of a statement-like type, and at the start or end of the
\* matched node when it has no such ancestor.
C23_KeywordWidening ==
    Inserted =>
        /\ Len(pushedEdits) = Len(InsertMatches)
        /\ \A i \in 1 .. Len(pushedEdits) :
               KeywordNode(InsertMatches[i]) =>
                   /\ pushedEdits[i].start = pushedEdits[i].end
                   /\ pushedEdits[i].start
                      = insertOffset(IF StatementAncestors(InsertMatches[i]) # {}
                                     THEN NearestStatement(InsertMatches[i])
                                     ELSE InsertMatches[i])

\* insertAfter('[text="return"]', ...) in 'function test() { return 42; }':
\* the return token ends at 24, its return statement at 28.
C23_Witness ==
    /\ lastCall.op = "insertAfter"
    /\ lastCall.args[1] = "[text=\"return\"]"
    /\ tree = TreeFunction
    /\ Len(edits) = 1
    /\ edits[1].start = 28
    /\ edits[1].end = 28

\* The keyword without a statement above it: the for token of a for-in
\* statement stays the target of insertAfter.
KeywordWithoutStatement ==
    /\ lastCall.op = "insertAfter"
    /\ lastCall.args[1] = "[text=\"for\"]"
    /\ tree = TreeForIn
    /\ Len(edits) = 1
    /\ edits[1].start = 3

\* The insertion target of a matched node.
InsertTarget(n) ==
    IF KeywordNode(n) /\ StatementAncestors(n) # {} THEN NearestStatement(n) ELSE n

DeclarationLike(n) ==
    tree.nodes[n].type \in {"function_declaration", "method_definition", "class_declaration"}

\* The offset at which the line of an offset starts.
LineStartOf(offset) ==
    IF \E j \in 0 .. offset - 1 : charAt(sourceCode, j) = "\n"
    THEN 1 + CHOOSE j \in 0 .. offset - 1 :
                 /\ charAt(sourceCode, j) = "\n"
                 /\ \A k \in j + 1 .. offset - 1 : charAt(sourceCode, k) # "\n"
    ELSE 0

OnlyOf(str, chars) == \A k \in 0 .. Len(str) - 1 : charAt(str, k) \in chars

\* What stands before a node on its line, and whether it is blank.
LineLead(n) == slice(sourceCode, LineStartOf(tree.nodes[n].startIndex), tree.nodes[n].startIndex)

FirstOnLine(n) == OnlyOf(LineLead(n), {" ", "\t"})

\* The line the inserted text is to be: the leading whitespace of the
\* line of the target, then the text.
InsertedLine(n) == LineLead(n) \o trim(lastCall.args[2])

\* In the output, the inserted line starts a line at q and a newline ends
\* it; newlines and the indentation of the target separate it from the
\* target, which the insertion moved to the right.
OwnLineBefore(out, n, q) ==
    LET targetStart == tree.nodes[n].startIndex + (Len(out) - Len(sourceCode))
        lineEnd == q + Len(InsertedLine(n))
    IN  /\ q = 0 \/ charAt(out, q - 1) = "\n"
        /\ slice(out, q, lineEnd) = InsertedLine(n)
        /\ lineEnd + Len(LineLead(n)) < targetStart
        /\ OnlyOf(slice(out, lineEnd, targetStart - Len(LineLead(n))), {"\n"})
        /\ slice(out, targetStart - Len(LineLead(n)), targetStart) = LineLead(n)

\* In the output, newlines follow the target, then the inserted line from
\* q on, then a newline or the end of the output.
OwnLineAfter(out, n, q) ==
    LET lineEnd == q + Len(InsertedLine(n))
    IN  /\ q > tree.nodes[n].endIndex
        /\ OnlyOf(slice(out, tree.nodes[n].endIndex, q), {"\n"})
        /\ slice(out, q, lineEnd) = InsertedLine(n)
        /\ lineEnd = Len(out) \/ charAt(out, lineEnd) = "\n"

OwnLine(n) ==
    \E q \in 0 .. Len(outcome.value) :
        IF lastCall.op = "insertBefore"
        THEN OwnLineBefore(outcome.value, n, q)
        ELSE OwnLineAfter(outcome.value, n, q)

\* An insert that matched one node, rendered, with a statement-like or
\* declaration-like target that is the first thing on its line.
InsertedOneLineTarget ==
    /\ Inserted
    /\ RenderedAlone
    /\ Len(InsertMatches) = 1
    /\ Len(pushedEdits) = 1
    /\ StatementLike(InsertTarget(InsertMatches[1])) \/ DeclarationLike(InsertTarget(InsertMatches[1]))
    /\ FirstOnLine(InsertTarget(InsertMatches[1]))

\* C24: for a statement-like or declaration-like target that is the first
\* thing on its line, after insertBefore or insertAfter and the render the
\* inserted text is a line of its own, a newline separates it from the
\* target, and its leading whitespace is that of the line of the target,
\* indented or not, followed by a newline or not.
C24_InsertOwnLine ==
    InsertedOneLineTarget => OwnLine(InsertTarget(InsertMatches[1]))

\* The same, for insertBefore of a target that is not indented, and for
\* insertAfter of a target at the end of the source or of a method of a
\* class body that a newline follows.
InsertOwnLineUnindentedOrLast ==
    LET n == InsertTarget(InsertMatches[1])
    IN  (/\ InsertedOneLineTarget
         /\ \/ lastCall.op = "insertBefore" /\ LineLead(n) = ""
            \/ lastCall.op = "insertAfter" /\ tree.nodes[n].endIndex = Len(sourceCode)
            \/ /\ lastCall.op = "insertAfter"
               /\ tree.nodes[n].type = "method_definition"
               /\ charAt(sourceCode, tree.nodes[n].endIndex) = "\n")
        => OwnLine(n)

\* C26: every edit that rename, renameIdentifier, replaceIn, remove,
\* removeUnusedImports, insertBefore or insertAfter appended has
\* 0 <= start <= end <= len(source), so no render of a session built with
\* these operations raises the out-of-bounds error.
C26_EditsInBounds ==
    /\ \A i \in 1 .. Len(edits) :
           /\ 0 <= edits[i].start
           /\ edits[i].start <= edits[i].end
           /\ edits[i].end <= Len(sourceCode)
    /\ ~(outcome.kind = "TransformError" /\ outcome.error = "Edit out of bounds")

\* remove('expression_statement') on 'console.log(1);\ntest();\n': the
\* second edit ends at the end of the source, and the render succeeds.
C26_Witness ==
    /\ lastCall = Call("remove", <<"expression_statement">>, 0, 1)
    /\ tree = TreeCalls
    /\ Len(edits) = 2
    /\ edits[2].end = Len(sourceCode)
    /\ outcome = Returned("")

OverlapRaised ==
    outcome.kind = "TransformError" /\ outcome.error = "Overlapping edits detected"

\* The nodes the selector of the last replaceIn or remove matched.
LastMatches ==
    IF lastCall.op = "remove" THEN RemoveMatches
    ELSE findAll(tree, 1, lastCall.args[1]).nodes

\* The last operation pushed an edit for a node: remove does for every
\* matched node, replaceIn pushes the range of the nodes it changes.
YieldsEdit(n) ==
    \/ lastCall.op = "remove"
    \/ \E i \in 1 .. Len(pushedEdits) :
           /\ pushedEdits[i].start = tree.nodes[n].startIndex
           /\ pushedEdits[i].end = tree.nodes[n].endIndex

\* One replaceIn or remove matched a node and one of its descendants, and
\* both gave an edit.
NestedEdits ==
    /\ lastCall.op \in {"replaceIn", "remove"}
    /\ \E i, j \in 1 .. Len(LastMatches) :
           /\ LastMatches[j] \in subtree(tree, LastMatches[i]) \ {LastMatches[i]}
           /\ YieldsEdit(LastMatches[i])
           /\ YieldsEdit(LastMatches[j])

\* One remove has two statement-like targets that start on the same line.
SameLineRemovals ==
    /\ lastCall.op = "remove"
    /\ \E i, j \in 1 .. Len(RemoveMatches) :
           /\ i # j
           /\ StatementLike(RemovalTarget(RemoveMatches[i]))
           /\ StatementLike(RemovalTarget(RemoveMatches[j]))
           /\ LineStartOf(tree.nodes[RemovalTarget(RemoveMatches[i])].startIndex)
              = LineStartOf(tree.nodes[RemovalTarget(RemoveMatches[j])].startIndex)

\* The last rename pushed edits, and the same edits were the last pushed
\* before it: the rename was chained twice.
RenamedTwice ==
    /\ lastCall.op = "rename"
    /\ pushedEdits # <<>>
    /\ lastCall.from >= Len(pushedEdits)
    /\ SubSeq(edits, lastCall.from - Len(pushedEdits) + 1, lastCall.from) = pushedEdits

\* C27: when one replaceIn or remove gave an edit for a node and for one
\* of its descendants, when one remove has two statement-like targets on
\* the same line, or when the same rename was chained twice, toString
\* raises the overlap TransformError and returns no output.
C27_OverlapFromOneOperation ==
    (Rendered /\ (NestedEdits \/ SameLineRemovals \/ RenamedTwice)) => OverlapRaised

\* replaceIn('call_expression', 'a', 'b') on 'f(a(1));' pushed an edit for
\* the outer call and one for the inner call, and the render raised.
C27_Witness ==
    /\ lastCall = Call("replaceIn", <<"call_expression", Literal("a"), "b">>, 0, 1)
    /\ tree = TreeNestedCalls
    /\ edits = <<Edit(0, 7, "f(b(1))"), Edit(2, 6, "b(1)")>>
    /\ Rendered
    /\ OverlapRaised

\* remove('const') with two declarations on one line, and rename chained
\* twice, rendered.
SameLineRemovalsRendered == Rendered /\ SameLineRemovals /\ tree = TreeNested

RenamedTwiceRendered == Rendered /\ RenamedTwice /\ tree = TreeRename

\* The concrete types the keyword names stand for as type selectors.
KeywordSelects(keyword) ==
    CASE keyword \in {"const", "let"} -> {"lexical_declaration"}
      [] keyword = "var" -> {"variable_declaration"}
      [] keyword = "return" -> {"return_statement"}
      [] keyword = "if" -> {"if_statement"}
      [] keyword = "for" -> {"for_statement", "for_in_statement", "for_of_statement"}
      [] keyword = "while" -> {"while_statement", "do_statement"}

InsertMatched == {InsertMatches[i] : i \in 1 .. Len(InsertMatches)}

\* C29: as a bare type selector each of const, let, var, return, if, for
\* and while selects the nodes of the types it is an alias of and never the
\* keyword token of that name; so an insertBefore or insertAfter with a
\* bare type selector matches no node of a keyword type, and its edits
\* stand at the matched nodes themselves.
C29_KeywordsAreAliases ==
    (Inserted /\ IsTypeName(lastCall.args[1])) =>
        /\ \A n \in InsertMatched : ~KeywordNode(n)
        /\ lastCall.args[1] \in {"const", "let", "var", "return", "if", "for", "while"}
               => InsertMatched
                  = {n \in NodeIds(tree) :
                        tree.nodes[n].type \in KeywordSelects(lastCall.args[1])}
        /\ \A i \in 1 .. Len(pushedEdits) :
               pushedEdits[i].start = insertOffset(InsertMatches[i])

\* insertAfter('var', ...) on 'if (a) var b;': the edit stands at the end
\* of the variable declaration, the one node matched; the var token at
\* [7, 10) is not matched.
C29_Witness ==
    /\ lastCall.op = "insertAfter"
    /\ lastCall.args[1] = "var"
    /\ tree = TreeIfVar
    /\ Len(edits) = 1
    /\ edits[1].start = 13

--------------------------------------------------------------------------
(* Claims on comma-separated selectors and on queries below the root *)

\* The selectors joined by a comma in the patterns of the model.
CommaPairs ==
    {<<"identifier", "string">>, <<"string", "template">>,
     <<"identifier", "template_string">>}

ConcreteType(typeName) == typeName \notin DOMAIN NODE_TYPE_ALIASES

\* C28: 'A, B' selects a node iff the node matches A and matches B; for
\* two different concrete types it selects no node.
C28_CommaIsConjunction ==
    \A pair \in CommaPairs :
        (queryOp = "findAll" /\ queryPattern = pair[1] \o ", " \o pair[2]) =>
            /\ InPreOrder(tree, queryResult.nodes,
                          {n \in subtree(tree, queryAt) :
                              matches(pair[1], n) /\ matches(pair[2], n)})
            /\ (ConcreteType(pair[1]) /\ ConcreteType(pair[2]) /\ pair[1] # pair[2])
                   => queryResult = Nodes(<<>>)

\* 'string, template' on a string that holds a template string: the
\* template string is of both aliases, the string of the first only.
C28_Witness ==
    /\ tree = GenTree(<<0, 1>>, <<"string", "template_string">>, 2)
    /\ queryOp = "findAll"
    /\ queryAt = 1
    /\ queryPattern = "string, template"
    /\ queryResult = Nodes(<<2>>)

\* The nodes at or below queryAt that match R and whose parent, or one of
\* whose strict ancestors in the whole tree, matches L.
BelowWithParent(l, r) ==
    {n \in subtree(tree, queryAt) :
        /\ matches(r, n)
        /\ tree.nodes[n].parent # 0
        /\ matches(l, tree.nodes[n].parent)}

BelowWithAncestor(l, r) ==
    {n \in subtree(tree, queryAt) :
        matches(r, n) /\ \E a \in strictAncestors(n) : matches(l, a)}

\* What find and findAll return for a set of nodes: all of them in
\* document order, or the first of them.
ReturnsFrom(S) ==
    /\ queryOp = "findAll" => InPreOrder(tree, queryResult.nodes, S)
    /\ queryOp = "find" =>
           queryResult = IF S = {} THEN Null
                         ELSE OneNode(CHOOSE n \in S : \A m \in S : before(tree, n, m) \/ n = m)

\* C30: X.find and X.findAll with 'L > R' or 'L R' return nodes of the
\* subtree of X only, but the left side is tested on the parent or the
\* ancestors of the matched node up to the root of the tree, X and the
\* nodes above X included.
C30_LeftSideAboveSearchRoot ==
    \A r \in RightSelectors :
        /\ (Queried /\ queryPattern = ChildPattern("string", r))
               => ReturnsFrom(BelowWithParent("string", r))
        /\ (Queried /\ queryPattern = DescendantPattern("string", r))
               => ReturnsFrom(BelowWithAncestor("string", r))

\* findAll('string identifier') on the identifier below a string that is
\* the root: the identifier is returned, its string ancestor is above the
\* node searched.
C30_Witness ==
    /\ tree = GenTree(<<0, 1>>, <<"string", "identifier">>, 2)
    /\ queryOp = "findAll"
    /\ queryAt = 2
    /\ queryPattern = "string identifier"
    /\ queryResult = Nodes(<<2>>)

--------------------------------------------------------------------------
(* Claims on the traversal *)

\* The callbacks called so far, and the nodes visit was called for.
Events == visit.events

Visited == subtree(tree, queryAt)

\* The strict ancestors of a node that the traversal goes through.
VisitedAbove(n) == strictAncestors(n) \cap Visited

CalledBefore(kind, n, i) == \E j \in 1 .. i - 1 : Events[j] = <<kind, n>>

\* enter on a node comes before every callback of its descendants and
\* before its own exit; exit on a node comes after every callback of its
\* descendants.
Nested ==
    \A i \in 1 .. Len(Events) :
        /\ \A a \in VisitedAbove(Events[i][2]) :
               /\ visit.enter => CalledBefore("enter", a, i)
               /\ ~CalledBefore("exit", a, i)
        /\ (visit.enter /\ Events[i][1] = "exit")
               => CalledBefore("enter", Events[i][2], i)

\* The callbacks of two nodes neither of which is above the other come in
\* the order of the nodes, left to right; no callback is called twice.
LeftToRight ==
    \A i, j \in 1 .. Len(Events) :
        i < j =>
            /\ Events[i] # Events[j]
            /\ (/\ Events[i][2] # Events[j][2]
                /\ Events[i][2] \notin strictAncestors(Events[j][2])
                /\ Events[j][2] \notin strictAncestors(Events[i][2]))
                   => before(tree, Events[i][2], Events[j][2])

\* A traversal in which no callback returned false calls every callback
\* the visitor has on every node.
Complete ==
    visit.status = "done" =>
        \A n \in Visited :
            /\ visit.enter => CalledBefore("enter", n, Len(Events) + 1)
            /\ visit.exit => CalledBefore("exit", n, Len(Events) + 1)

\* After a callback returned false the traversal is over, and the nodes
\* above the node of that callback have had no exit.
StoppedAtFalse ==
    visit.returnedFalse =>
        /\ visit.status = "stopped"
        /\ \A a \in VisitedAbove(Events[Len(Events)][2]) :
               ~CalledBefore("exit", a, Len(Events) + 1)

\* C25: visit calls enter on a node before any callback of its
\* descendants and exit after all of them, children left to right; once
\* an enter or exit callback has returned false no callback is called any
\* more, exit on the entered ancestors included.
C25_VisitOrder ==
    /\ [](Nested /\ LeftToRight /\ Complete /\ StoppedAtFalse)
    /\ [][visit.returnedFalse => visit'.events = visit.events]_vars

\* enter returned false on the identifier of 'abc': the program and the
\* statement were entered, and neither has had its exit.
C25_Witness ==
    /\ tree = TreeAbc
    /\ queryAt = 1
    /\ visit = [status |-> "stopped", enter |-> TRUE, exit |-> TRUE, stack |-> <<>>,
                events |-> << <<"enter", 1>>, <<"enter", 2>>, <<"enter", 3>> >>,
                returnedFalse |-> TRUE]


--------------------------------------------------------------------------
(* Two sessions on one tree: tree.transform() called twice *)

\* TreeHugger.transform() returns new Transform(this.root, this.sourceCode):
\* the two sessions hold the same root wrapper and the same source string,
\* and each holds its own edits array.  A session is its edits, what its
\* last call returned or threw, and the calls made on it so far.
NewSession == [edits |-> <<>>, outcome |-> NoOutcome, calls |-> <<>>]

Sessions == 1 .. 2

PairTrees == {TreeFunction, TreeCalls, TreeNestedCalls}

SessionCall(op, args) == [op |-> op, args |-> args]

\* What a call does to a session with the edits es: the edits it leaves
\* and what it returns or throws.
effect(t, call, es) ==
    CASE call.op = "rename" ->
           [edits |-> es \o rename(t, call.args[1], call.args[2]),
            outcome |-> ReturnedThis]
      [] call.op = "remove" ->
           LET found == findAll(t, 1, actualPattern(call.args[1])) IN
           [edits |-> es \o remove(t, found.nodes), outcome |-> returns(found)]
      [] call.op = "insertBefore" ->
           LET found == findAll(t, 1, call.args[1]) IN
           [edits |-> es \o insertBefore(t, found.nodes, call.args[2]),
            outcome |-> returns(found)]
      [] call.op = "toString" ->
           [edits |-> es, outcome |-> toString(t.source, es)]

\* Mutant of queued: the two sessions push to one edits array.
queuedShared(ss, s, call, after) ==
    [i \in DOMAIN ss |->
        IF i = s
        THEN [edits |-> after.edits, outcome |-> after.outcome,
              calls |-> Append(ss[i].calls, call)]
        ELSE [ss[i] EXCEPT !.edits = after.edits]]

\* The call is made on session s: this.edits is the array of that session.
queued(ss, s, call, after) ==
    [ss EXCEPT ![s] = [edits |-> after.edits, outcome |-> after.outcome,
                       calls |-> Append(ss[s].calls, call)]]

\* TreeNode.children: this._children ??= ... fills the cache of a node on
\* its first read and keeps it afterwards.  A walk of the whole tree
\* (getAllDescendants, findAllNodes) reads the children of every node.
walked(t, cache) ==
    [n \in NodeIds(t) |-> IF cache[n] # <<>> THEN cache[n] ELSE <<children(t, n)>>]

\* The predicate of a selector that raises is called on the root before
\* the children of any node are read.
walkedBy(t, pattern, cache) ==
    IF findAll(t, 1, pattern).kind = "TypeError" THEN cache ELSE walked(t, cache)

PairInit ==
    /\ tree \in PairTrees
    /\ sourceCode = tree.source
    /\ edits = <<>>
    /\ outcome = NoOutcome
    /\ lastOp = "new"
    /\ renders = "none"
    /\ queryOp = "none"
    /\ queryAt = 0
    /\ queryPattern = ""
    /\ queryResult = NoResult
    /\ lastCall = NoCall
    /\ visit = NoVisit
    /\ sessions = [s \in Sessions |-> NewSession]
    /\ cachedChildren = [n \in NodeIds(tree) |-> <<>>]

SessionRename(s, oldName, newName) ==
    /\ Len(sessions[s].calls) < MaxCalls + 1
    /\ sessions' = queued(sessions, s, SessionCall("rename", <<oldName, newName>>),
                          effect(tree, SessionCall("rename", <<oldName, newName>>),
                                 sessions[s].edits))
    /\ cachedChildren' = walked(tree, cachedChildren)
    /\ UNCHANGED <<tree, session, query, visit>>

SessionRemove(s, pattern) ==
    /\ Len(sessions[s].calls) < MaxCalls + 1
    /\ sessions' = queued(sessions, s, SessionCall("remove", <<pattern>>),
                          effect(tree, SessionCall("remove", <<pattern>>),
                                 sessions[s].edits))
    /\ cachedChildren' = walkedBy(tree, actualPattern(pattern), cachedChildren)
    /\ UNCHANGED <<tree, session, query, visit>>

SessionInsertBefore(s, pattern, str) ==
    /\ Len(sessions[s].calls) < MaxCalls + 1
    /\ sessions' = queued(sessions, s, SessionCall("insertBefore", <<pattern, str>>),
                          effect(tree, SessionCall("insertBefore", <<pattern, str>>),
                                 sessions[s].edits))
    /\ cachedChildren' = walkedBy(tree, pattern, cachedChildren)
    /\ UNCHANGED <<tree, session, query, visit>>

\* toString reads this.sourceCode and copies of this.edits; it reads no node.
SessionToString(s) ==
    /\ Len(sessions[s].calls) < MaxCalls + 1
    /\ sessions' = queued(sessions, s, SessionCall("toString", <<>>),
                          effect(tree, SessionCall("toString", <<>>),
                                 sessions[s].edits))
    /\ UNCHANGED <<tree, session, query, visit, cachedChildren>>

PairNext ==
    \/ \E s \in Sessions : SessionRename(s, "test", "yy")
    \/ \E s \in Sessions, pattern \in {"call_expression", "constructor"} :
            SessionRemove(s, pattern)
    \/ \E s \in Sessions : SessionInsertBefore(s, "return_statement", " console.log(x);")
    \/ \E s \in Sessions : SessionToString(s)

PairSpec == PairInit /\ [][PairNext]_vars

\* The session that is given the calls alone, one after the other, from
\* a new session on the tree.
RECURSIVE alone(_, _, _)
alone(t, calls, sofar) ==
    IF calls = <<>>
    THEN sofar
    ELSE LET after == effect(t, Head(calls), sofar.edits) IN
         alone(t, Tail(calls),
               [edits |-> after.edits, outcome |-> after.outcome,
                calls |-> Append(sofar.calls, Head(calls))])

AsAlone == \A s \in Sessions : sessions[s] = alone(tree, sessions[s].calls, NewSession)

\* The cache of a node is empty or holds the children the tree gives it,
\* and the source of the sessions is the source of the tree.
TreeAsParsed ==
    /\ sourceCode = tree.source
    /\ \A n \in NodeIds(tree) : cachedChildren[n] \in {<<>>, <<children(tree, n)>>}

\* A call on one session leaves the other session, the tree and the source.
OtherUntouched ==
    /\ tree' = tree
    /\ sourceCode' = sourceCode
    /\ \A s \in Sessions :
          sessions'[s].calls = sessions[s].calls => sessions'[s] = sessions[s]

\* C21: two sessions made from one tree are independent.  Under every
\* interleaving of their calls, each session holds the edits and the outcome
\* that its own calls give when they run alone; no call changes the other
\* session, the source string, or the type, range, children or parent of a
\* node (the cache of a node's children holds what the tree gives).
C21_SessionsIndependent == [](AsAlone /\ TreeAsParsed) /\ [][OtherUntouched]_vars

\* Both sessions have queued edits and rendered, the calls interleaved:
\* one session renamed, the other removed, and the two renders differ.
C21_Witness ==
    /\ Len(sessions) = 2
    /\ sessions[1].calls = <<SessionCall("rename", <<"test", "yy">>),
                             SessionCall("toString", <<>>)>>
    /\ sessions[2].calls = <<SessionCall("remove", <<"call_expression">>),
                             SessionCall("toString", <<>>)>>
    /\ sessions[1].edits # <<>>
    /\ sessions[2].edits # <<>>
    /\ sessions[1].outcome.kind = "string"
    /\ sessions[2].outcome.kind = "string"
    /\ sessions[1].outcome # sessions[2].outcome
    /\ \A n \in NodeIds(tree) : cachedChildren[n] # <<>>

====
